---- MODULE Spec2Model ----
(***************************************************************************)
(* Voxel world engine: World (chunk lifecycle, block queries, mutation     *)
(* with support cascade), Chunk storage, the block registry and the        *)
(* terrain generator.                                                      *)
(*                                                                         *)
(* Representation of JavaScript numbers.  Coordinates reaching the World   *)
(* API may be fractional (player positions, x + 0.5 in findSafeSpawn), so  *)
(* every coordinate is held as TWICE its value: Num(5) is 5, Num(5) + 1 is *)
(* 5.5.  Math.floor, % and the integer test on typed-array indices are     *)
(* computed on that representation.  Block types, array indices and the    *)
(* program's dimension constants are plain integers.                       *)
(***************************************************************************)
EXTENDS Integers, Sequences, FiniteSets, TLC

----------------------------------------------------------------------------
(* Numbers *)

Num(i) == 2 * i

IsInteger(h) == h % 2 = 0

\* Math.floor(h)
MathFloor(h) == 2 * (h \div 2)

\* Math.floor(h / c) for a plain integer constant c > 0
FloorDiv(h, c) == 2 * (h \div (2 * c))

\* the JavaScript remainder a % c (sign of the dividend), c > 0 a plain integer
JsRem(h, c) == IF h >= 0 THEN h % (2 * c) ELSE 0 - ((0 - h) % (2 * c))

\* Math.abs
MathAbs(h) == IF h < 0 THEN 0 - h ELSE h

\* the plain integer an integral number stands for
ToInt(h) == h \div 2

\* placeholder of a field that holds nothing
None == 0 - 1

----------------------------------------------------------------------------
(* utils/constants *)

CHUNK_WIDTH == 16
CHUNK_HEIGHT == 64
CHUNK_DEPTH == 16
RENDER_DISTANCE == 3
SEA_LEVEL == 25

----------------------------------------------------------------------------
(* world/Block.ts *)

AIR == 0
GRASS == 1
DIRT == 2
STONE == 3
BEDROCK == 4
SAND == 5
WATER == 6
WOOD == 7
LEAVES == 8
SNOW == 9

BlockType == AIR..SNOW

\* An optional property is <<>> when the row does not declare it and <<v>>
\* when it does; Coalesce is the ?? operator.
Coalesce(opt, default) == IF opt = <<>> THEN default ELSE opt[1]

Row(solid, transparent, fluid, replaceable, height16) ==
  [solid |-> solid, transparent |-> transparent, fluid |-> fluid,
   replaceable |-> replaceable, height16 |-> height16,
   isSupport |-> <<>>, needsSupport |-> <<>>, supportDirections |-> <<>>]

\* height16 is the height in sixteenths of a block
blockRegistry ==
  [t \in BlockType |->
     CASE t = AIR    -> Row(FALSE, TRUE, FALSE, TRUE, 16)
       [] t = WATER  -> Row(FALSE, TRUE, TRUE, TRUE, 16)
       [] t = LEAVES -> Row(FALSE, TRUE, FALSE, FALSE, 16)
       [] t = SNOW   -> [Row(FALSE, FALSE, FALSE, FALSE, 2) EXCEPT
                           !.needsSupport = <<TRUE>>,
                           !.supportDirections = << <<  <<0, -1, 0>>  >> >>]
       [] OTHER      -> Row(TRUE, FALSE, FALSE, FALSE, 16)]

isBlockSolid(blockType) == blockRegistry[blockType].solid

isBlockWater(blockType) == blockRegistry[blockType].fluid

\* isBlockSupport without its "if (blockType === BlockType.AIR) return false"
isBlockSupport_Air(blockType) ==
  Coalesce(blockRegistry[blockType].isSupport, TRUE)

isBlockSupport(blockType) ==
  IF blockType = AIR THEN FALSE
  ELSE Coalesce(blockRegistry[blockType].isSupport, TRUE)

blockNeedsSupport(blockType) ==
  Coalesce(blockRegistry[blockType].needsSupport, FALSE)

getBlockSupportDirections(blockType) ==
  Coalesce(blockRegistry[blockType].supportDirections, <<>>)

----------------------------------------------------------------------------
(* world/TerrainGenerator.ts *)

\* The coherent-noise functions come from the simplex-noise package; they
\* are deterministic functions of the seed and of their arguments with
\* values in [-1, 1].  Values are held in thousandths, arguments in units
\* of 1/200 (worldX * 0.01 is the representation of worldX itself).
noise2D(s, a, b) == ((s * 31 + a * 7 + b * 13) % 2001) - 1000

noise3D(s, a, b, c) == ((s * 29 + a * 11 + b * 5 + c * 3) % 2001) - 1000

\* initNoise: noise2D and noise3D are rebuilt from a random stream that
\* createSeededRandom starts afresh at the seed field, so the pair is
\* determined by that seed, which stands for it here
initNoise(s) == s

\* setSeed without its "this.initNoise()"
setSeed_NoInit(gen, s) == [seed |-> s, noise |-> gen.noise]

\* setSeed on the generator gen: "this.seed = seed; this.initNoise()"
setSeed(gen, s) == [seed |-> s, noise |-> initNoise(s)]

\* the height getHeight computes from the values of its three octaves
\* (x 20, x 10, x 3), plus 30, floored
HeightOf(n1, n2, n3) == Num((n1 * 20 + n2 * 10 + n3 * 3 + 30 * 1000) \div 1000)

getHeight(s, worldX, worldZ) ==
  HeightOf(noise2D(s, worldX, worldZ), noise2D(s, worldX * 3, worldZ * 3),
           noise2D(s, worldX * 10, worldZ * 10))

\* the rules of getBlock with caves carved up to the surface
BlockOf_CarvedSurface(surfaceHeight, caveNoise, worldY) ==
  IF worldY < 0 THEN BEDROCK
  ELSE IF worldY > surfaceHeight
    THEN (IF worldY <= Num(SEA_LEVEL) THEN WATER ELSE AIR)
  ELSE IF worldY <= Num(1) THEN BEDROCK
  ELSE IF caveNoise > 600 /\ worldY > Num(5) THEN AIR
  ELSE IF worldY = surfaceHeight
    THEN (IF surfaceHeight < Num(25) THEN SAND ELSE GRASS)
  ELSE IF worldY >= surfaceHeight - Num(3) THEN DIRT
  ELSE STONE

\* the rules of getBlock with the bedrock layer tested before the terrain
BlockOf_FloorFirst(surfaceHeight, caveNoise, worldY) ==
  IF worldY < 0 THEN BEDROCK
  ELSE IF worldY <= Num(1) THEN BEDROCK
  ELSE IF worldY > surfaceHeight
    THEN (IF worldY <= Num(SEA_LEVEL) THEN WATER ELSE AIR)
  ELSE IF caveNoise > 600 /\ worldY < surfaceHeight - Num(5)
          /\ worldY > Num(5) THEN AIR
  ELSE IF worldY = surfaceHeight
    THEN (IF surfaceHeight < Num(25) THEN SAND ELSE GRASS)
  ELSE IF worldY >= surfaceHeight - Num(3) THEN DIRT
  ELSE STONE

\* the rules of getBlock, in their order, on the surface height of the
\* column and the value of the cave noise at the cell
BlockOf(surfaceHeight, caveNoise, worldY) ==
  IF worldY < 0 THEN BEDROCK
  ELSE IF worldY > surfaceHeight
    THEN (IF worldY <= Num(SEA_LEVEL) THEN WATER ELSE AIR)
  ELSE IF worldY <= Num(1) THEN BEDROCK
  ELSE IF caveNoise > 600 /\ worldY < surfaceHeight - Num(5)
          /\ worldY > Num(5) THEN AIR
  ELSE IF worldY = surfaceHeight
    THEN (IF surfaceHeight < Num(25) THEN SAND ELSE GRASS)
  ELSE IF worldY >= surfaceHeight - Num(3) THEN DIRT
  ELSE STONE

TerrainGetBlock(s, worldX, worldY, worldZ) ==
  BlockOf(getHeight(s, worldX, worldZ),
          noise3D(s, worldX * 5, worldY * 5, worldZ * 5), worldY)

----------------------------------------------------------------------------
(* The model's variables *)

VARIABLES
  chunks,        \* World.chunks: Map from key string to Chunk
  scene,         \* gameScene: keys of the chunks whose meshes are in the scene
  geometries,    \* number of THREE.BufferGeometry objects created and not disposed
  seed,          \* terrainGenerator.seed
  noise,         \* terrainGenerator.noise2D and noise3D: the seed they were built from
  isEdgeWorld,   \* edgeWorldState._isEdgeWorld
  centres,       \* the player chunks of the last three World.update calls made in a row
  gameState,     \* gameState._state
  worldInitialized,  \* the worldInitialized flag of main.ts
  last           \* the last call made on the World: operation, arguments, trace

vars == <<chunks, scene, geometries, seed, noise, isEdgeWorld, centres, gameState,
         worldInitialized, last>>

----------------------------------------------------------------------------
(* Strings: built with \o, read character by character with SubSeq *)

DigitChar(d) == <<"0", "1", "2", "3", "4", "5", "6", "7", "8", "9">>[d + 1]

RECURSIVE Digits(_)
Digits(n) == IF n < 10 THEN DigitChar(n)
             ELSE Digits(n \div 10) \o DigitChar(n % 10)

\* Number-to-string conversion of a template literal
RECURSIVE NumberToString(_)
NumberToString(h) ==
  IF h < 0 THEN "-" \o NumberToString(0 - h)
  ELSE IF IsInteger(h) THEN Digits(ToInt(h))
  ELSE Digits(ToInt(h - 1)) \o ".5"

CharAt(str, i) == SubSeq(str, i, i)

DigitValue(c) == CHOOSE d \in 0..9 : DigitChar(d) = c

RECURSIVE ParseDigits(_, _, _)
ParseDigits(str, i, acc) ==
  IF i > Len(str) THEN acc
  ELSE ParseDigits(str, i + 1, acc * 10 + DigitValue(CharAt(str, i)))

\* Number(str) for the strings NumberToString produces
StringToNumber(str) ==
  LET negative == Len(str) >= 1 /\ CharAt(str, 1) = "-"
      body == IF negative THEN SubSeq(str, 2, Len(str)) ELSE str
      half == Len(body) >= 2 /\ SubSeq(body, Len(body) - 1, Len(body)) = ".5"
      whole == IF half THEN SubSeq(body, 1, Len(body) - 2) ELSE body
      value == Num(ParseDigits(whole, 1, 0)) + (IF half THEN 1 ELSE 0)
  IN  IF negative THEN 0 - value ELSE value

\* str.split(','): the parts of str from position i on, cur being the part
\* read so far
RECURSIVE Split(_, _, _)
Split(str, i, cur) ==
  IF i > Len(str) THEN <<cur>>
  ELSE IF CharAt(str, i) = "," THEN <<cur>> \o Split(str, i + 1, "")
  ELSE Split(str, i + 1, cur \o CharAt(str, i))

----------------------------------------------------------------------------
(* world/Chunk.ts *)

\* The cells whose array entries the model stores from construction on; a
\* write to another cell adds its entry.  An entry the model does not store
\* holds the value generate() gave it, which is never SNOW.
Cell(x, y, z) == <<Num(x), Num(y), Num(z)>>

TrackedCells ==
  { Cell(5, 9, 5), Cell(5, 10, 5), Cell(5, 11, 5),
    Cell(-1, 40, 0), Cell(-1, 41, 0), Cell(0, 41, 0) }

ArrayLength == CHUNK_WIDTH * CHUNK_HEIGHT * CHUNK_DEPTH

getIndex(x, y, z) == y * CHUNK_WIDTH * CHUNK_DEPTH + z * CHUNK_WIDTH + x

\* the local coordinates of array index i
IndexX(i) == Num(i % CHUNK_WIDTH)
IndexZ(i) == Num((i \div CHUNK_WIDTH) % CHUNK_DEPTH)
IndexY(i) == Num(i \div (CHUNK_WIDTH * CHUNK_DEPTH))

TrackedIndices(chunkX, chunkZ) ==
  { ToInt(getIndex(c[1] - chunkX * CHUNK_WIDTH, c[2], c[3] - chunkZ * CHUNK_DEPTH)) :
      c \in { d \in TrackedCells :
                /\ FloorDiv(d[1], CHUNK_WIDTH) = chunkX
                /\ FloorDiv(d[3], CHUNK_DEPTH) = chunkZ } }

\* the value generate() writes at array index i
Generated(s, chunkX, chunkZ, i) ==
  TerrainGetBlock(s, chunkX * CHUNK_WIDTH + IndexX(i), IndexY(i),
                  chunkZ * CHUNK_DEPTH + IndexZ(i))

\* the constructor without its "this.generate()": the array as new
\* Uint8Array leaves it, all zero
NewChunk_Zeroed(s, chunkX, chunkZ) ==
  [chunkX |-> chunkX, chunkZ |-> chunkZ,
   blocks |-> [i \in TrackedIndices(chunkX, chunkZ) |-> AIR],
   genSeed |-> s,
   mesh |-> FALSE, waterMesh |-> FALSE]

\* constructor + generate(): the array filled from the terrain generator;
\* no mesh yet
NewChunk(s, chunkX, chunkZ) ==
  [chunkX |-> chunkX, chunkZ |-> chunkZ,
   blocks |-> [i \in TrackedIndices(chunkX, chunkZ) |->
                 Generated(s, chunkX, chunkZ, i)],
   genSeed |-> s,
   mesh |-> FALSE, waterMesh |-> FALSE]

\* this.blocks[index]: undefined (-1) for an index that is no array index
Undefined == 0 - 1

ReadArray(chunk, index) ==
  IF ~IsInteger(index) \/ index < 0 \/ ToInt(index) >= ArrayLength THEN Undefined
  ELSE IF ToInt(index) \in DOMAIN chunk.blocks THEN chunk.blocks[ToInt(index)]
  ELSE Generated(chunk.genSeed, chunk.chunkX, chunk.chunkZ, ToInt(index))

\* this.blocks[index] = blockType: a typed array ignores a write at an
\* index that is not an integer inside the array
WriteArray(chunk, index, blockType) ==
  IF ~IsInteger(index) \/ index < 0 \/ ToInt(index) >= ArrayLength THEN chunk
  ELSE [chunk EXCEPT !.blocks =
          [i \in DOMAIN chunk.blocks \cup {ToInt(index)} |->
             IF i = ToInt(index) THEN blockType ELSE chunk.blocks[i]]]

OutOfChunk(x, y, z) ==
  \/ x < 0 \/ x >= Num(CHUNK_WIDTH)
  \/ y < 0 \/ y >= Num(CHUNK_HEIGHT)
  \/ z < 0 \/ z >= Num(CHUNK_DEPTH)

getBlockLocal(chunk, x, y, z) == ReadArray(chunk, getIndex(x, y, z))

\* setBlock without its bounds test
ChunkSetBlock_Unchecked(chunk, x, y, z, blockType) ==
  WriteArray(chunk, getIndex(x, y, z), blockType)

ChunkSetBlock(chunk, x, y, z, blockType) ==
  IF OutOfChunk(x, y, z) THEN chunk
  ELSE WriteArray(chunk, getIndex(x, y, z), blockType)

\* a buildMesh that writes to the voxels it reads: stored stone and leaves
\* change places
ChunkBuildMesh_Writing(chunk) ==
  [chunk EXCEPT !.mesh = TRUE, !.waterMesh = TRUE,
                !.blocks = [i \in DOMAIN @ |->
                              IF @[i] = STONE THEN LEAVES
                              ELSE IF @[i] = LEAVES THEN STONE ELSE @[i]]]

\* buildMesh: the previous geometries are disposed and replaced
ChunkBuildMesh(chunk) == [chunk EXCEPT !.mesh = TRUE, !.waterMesh = TRUE]

\* geometries disposed by buildMesh, and by dispose, on this chunk
HeldGeometries(chunk) ==
  (IF chunk.mesh THEN 1 ELSE 0) + (IF chunk.waterMesh THEN 1 ELSE 0)

ChunkDispose(chunk) == [chunk EXCEPT !.mesh = FALSE, !.waterMesh = FALSE]

----------------------------------------------------------------------------
(* world/World.ts: keys, coordinates, queries *)

\* the template literal `${chunkX},${chunkZ}`
FormatKey(chunkX, chunkZ) ==
  NumberToString(chunkX) \o "," \o NumberToString(chunkZ)

\* key.split(',').map(Number)
SplitKey(key) ==
  LET parts == Split(key, 1, "")
  IN  [i \in 1..Len(parts) |-> StringToNumber(parts[i])]

\* Both conversions are computed once for the chunk coordinates the player
\* positions of the model can bring into range, and looked up afterwards.
KeyRange == (0 - (RENDER_DISTANCE + 2))..(2 * RENDER_DISTANCE + 3)

KeyTable == [x \in KeyRange, z \in KeyRange |-> FormatKey(Num(x), Num(z))]

ParseTable ==
  [key \in { KeyTable[x, z] : x \in KeyRange, z \in KeyRange } |-> SplitKey(key)]

getChunkKey(chunkX, chunkZ) ==
  IF /\ IsInteger(chunkX) /\ ToInt(chunkX) \in KeyRange
     /\ IsInteger(chunkZ) /\ ToInt(chunkZ) \in KeyRange
    THEN KeyTable[ToInt(chunkX), ToInt(chunkZ)]
  ELSE FormatKey(chunkX, chunkZ)

ParseKey(key) ==
  IF key \in DOMAIN ParseTable THEN ParseTable[key] ELSE SplitKey(key)

\* new Map()
EmptyMap == [k \in {} |-> None]

\* Map.has
MapHas(m, key) == key \in DOMAIN m

\* Map.set
MapSet(m, key, chunk) == (key :> chunk) @@ m

\* Map.delete
MapDelete(m, key) == [k \in DOMAIN m \ {key} |-> m[k]]

worldToChunk(worldX, worldZ) ==
  <<FloorDiv(worldX, CHUNK_WIDTH), FloorDiv(worldZ, CHUNK_DEPTH)>>

worldToLocal(worldX, worldY, worldZ) ==
  [chunkX |-> FloorDiv(worldX, CHUNK_WIDTH),
   chunkZ |-> FloorDiv(worldZ, CHUNK_DEPTH),
   localX |-> JsRem(JsRem(worldX, CHUNK_WIDTH) + Num(CHUNK_WIDTH), CHUNK_WIDTH),
   localY |-> worldY,
   localZ |-> JsRem(JsRem(worldZ, CHUNK_DEPTH) + Num(CHUNK_DEPTH), CHUNK_DEPTH)]

\* the lookup injected into every chunk
getBlockForChunk(m, s, worldX, worldY, worldZ) ==
  IF worldY < 0 \/ worldY >= Num(CHUNK_HEIGHT)
    THEN TerrainGetBlock(s, worldX, worldY, worldZ)
  ELSE LET l == worldToLocal(worldX, worldY, worldZ)
           key == getChunkKey(l.chunkX, l.chunkZ)
       IN  IF ~MapHas(m, key) THEN TerrainGetBlock(s, worldX, worldY, worldZ)
           ELSE getBlockLocal(m[key], l.localX, l.localY, l.localZ)

\* Chunk.getBlock: out-of-range coordinates go to the injected lookup
ChunkGetBlock(m, s, chunk, x, y, z) ==
  IF OutOfChunk(x, y, z)
    THEN getBlockForChunk(m, s, chunk.chunkX * CHUNK_WIDTH + x, y,
                          chunk.chunkZ * CHUNK_DEPTH + z)
  ELSE ReadArray(chunk, getIndex(x, y, z))

\* getBlock falling back to the terrain generator as getBlockForChunk does
WorldGetBlock_Fallback(m, s, worldX, worldY, worldZ) ==
  getBlockForChunk(m, s, MathFloor(worldX), MathFloor(worldY), MathFloor(worldZ))

WorldGetBlock(m, s, worldX, worldY, worldZ) ==
  LET l == worldToLocal(MathFloor(worldX), MathFloor(worldY), MathFloor(worldZ))
      key == getChunkKey(l.chunkX, l.chunkZ)
  IN  IF ~MapHas(m, key) THEN AIR
      ELSE ChunkGetBlock(m, s, m[key], l.localX, l.localY, l.localZ)

isBlockSolidAt(m, s, x, y, z) == isBlockSolid(WorldGetBlock(m, s, x, y, z))

isBlockWaterAt(m, s, x, y, z) == isBlockWater(WorldGetBlock(m, s, x, y, z))

----------------------------------------------------------------------------
(* The trace of one call: the calls it made that change state, in order *)

Ev(ev, key, at, val) == [ev |-> ev, key |-> key, at |-> at, val |-> val]

\* the state a call works on: the Map, the scene, the geometry count, the
\* chunksToRebuild set (a JS Set iterates in insertion order), the trace,
\* and whether the call threw (a RangeError of the call stack ends the call)
Working(m, sc, g) ==
  [m |-> m, scene |-> sc, geometries |-> g, rebuild |-> <<>>,
   events |-> <<>>, threw |-> FALSE]

Range(seq) == { seq[i] : i \in 1..Len(seq) }

\* Set.add
SetAdd(seq, x) == IF x \in Range(seq) THEN seq ELSE Append(seq, x)

\* chunk.buildMesh() on the chunk stored under key
BuildMeshAt(st, key) ==
  [st EXCEPT !.m[key] = ChunkBuildMesh(@),
             !.geometries = @ - HeldGeometries(st.m[key]) + 2,
             !.events = Append(@, Ev("buildMesh", key, None, None))]

\* chunk.setBlock() on the chunk stored under key
SetBlockAt(st, key, x, y, z, blockType) ==
  [st EXCEPT !.m[key] = ChunkSetBlock(@, x, y, z, blockType),
             !.events = Append(@, Ev("setBlock", key, getIndex(x, y, z), blockType))]

----------------------------------------------------------------------------
(* world/World.ts: setBlock and the support cascade *)

ADJACENT_DIRECTIONS ==
  << <<0, 1, 0>>, <<0, -1, 0>>, <<1, 0, 0>>, <<-1, 0, 0>>, <<0, 0, 1>>, <<0, 0, -1>> >>

\* depth of recursion at which the engine throws RangeError
MaxStack == 8

RECURSIVE SupportFrom(_, _, _, _, _, _, _)
SupportFrom(m, s, worldX, worldY, worldZ, supportDirs, i) ==
  IF i > Len(supportDirs) THEN FALSE
  ELSE LET d == supportDirs[i]
           supportBlock == WorldGetBlock(m, s, worldX + Num(d[1]),
                                         worldY + Num(d[2]), worldZ + Num(d[3]))
       IN  IF isBlockSupport(supportBlock) THEN TRUE
           ELSE SupportFrom(m, s, worldX, worldY, worldZ, supportDirs, i + 1)

\* a hasValidSupport that finds support everywhere
hasValidSupport_Always(m, s, worldX, worldY, worldZ, blockType) == TRUE

hasValidSupport(m, s, worldX, worldY, worldZ, blockType) ==
  SupportFrom(m, s, worldX, worldY, worldZ, getBlockSupportDirections(blockType), 1)

\* breakBlockWithCascade without its "chunk.setBlock(.., AIR)"
BreakWrite_Forgotten(st, key, l) == [st EXCEPT !.rebuild = SetAdd(@, key)]

\* the write breakBlockWithCascade makes before it recurses
BreakWrite(st, key, l) ==
  [SetBlockAt(st, key, l.localX, l.localY, l.localZ, AIR) EXCEPT
     !.rebuild = SetAdd(@, key)]

RECURSIVE breakUnsupportedFrom(_, _, _, _, _, _, _)
RECURSIVE breakBlockWithCascade(_, _, _, _, _, _)

\* the loop of breakUnsupportedBlocks from direction i on; depth counts the
\* breakBlockWithCascade frames on the stack
breakUnsupportedFrom(st, s, brokenX, brokenY, brokenZ, i, depth) ==
  IF st.threw \/ i > Len(ADJACENT_DIRECTIONS) THEN st
  ELSE LET d == ADJACENT_DIRECTIONS[i]
           checkX == brokenX + Num(d[1])
           checkY == brokenY + Num(d[2])
           checkZ == brokenZ + Num(d[3])
           block == WorldGetBlock(st.m, s, checkX, checkY, checkZ)
           next == IF blockNeedsSupport(block)
                      /\ ~hasValidSupport(st.m, s, checkX, checkY, checkZ, block)
                     THEN breakBlockWithCascade(st, s, checkX, checkY, checkZ, depth + 1)
                     ELSE st
       IN  breakUnsupportedFrom(next, s, brokenX, brokenY, brokenZ, i + 1, depth)

breakUnsupportedBlocks(st, s, brokenX, brokenY, brokenZ, depth) ==
  breakUnsupportedFrom(st, s, brokenX, brokenY, brokenZ, 1, depth)

breakBlockWithCascade(st, s, worldX, worldY, worldZ, depth) ==
  IF depth > MaxStack THEN [st EXCEPT !.threw = TRUE]
  ELSE LET l == worldToLocal(worldX, worldY, worldZ)
           key == getChunkKey(l.chunkX, l.chunkZ)
           entered == [st EXCEPT !.events =
                         Append(@, Ev("breakBlockWithCascade", key,
                                      getIndex(l.localX, l.localY, l.localZ), None))]
       IN  IF ~MapHas(st.m, key) THEN entered
           ELSE breakUnsupportedBlocks(BreakWrite(entered, key, l), s,
                                       worldX, worldY, worldZ, depth)

\* "for (const key of chunksToRebuild) { const c = get(key); if (c) c.buildMesh() }"
RECURSIVE RebuildAll(_, _)
RebuildAll(st, i) ==
  IF i > Len(st.rebuild) THEN st
  ELSE RebuildAll(IF MapHas(st.m, st.rebuild[i]) THEN BuildMeshAt(st, st.rebuild[i])
                  ELSE st, i + 1)

rebuildChunk(st, chunkX, chunkZ) ==
  LET key == getChunkKey(chunkX, chunkZ)
  IN  IF MapHas(st.m, key) THEN BuildMeshAt(st, key) ELSE st

\* the edge rebuild with the two x faces only
RebuildEdges_XOnly(st, l) ==
  LET a == IF l.localX = 0 THEN rebuildChunk(st, l.chunkX - Num(1), l.chunkZ) ELSE st
  IN  IF l.localX = Num(CHUNK_WIDTH - 1)
        THEN rebuildChunk(a, l.chunkX + Num(1), l.chunkZ) ELSE a

\* "rebuild adjacent chunks if on edge"
RebuildEdges(st, l) ==
  LET a == IF l.localX = 0 THEN rebuildChunk(st, l.chunkX - Num(1), l.chunkZ) ELSE st
      b == IF l.localX = Num(CHUNK_WIDTH - 1)
             THEN rebuildChunk(a, l.chunkX + Num(1), l.chunkZ) ELSE a
      c == IF l.localZ = 0 THEN rebuildChunk(b, l.chunkX, l.chunkZ - Num(1)) ELSE b
  IN  IF l.localZ = Num(CHUNK_DEPTH - 1)
        THEN rebuildChunk(c, l.chunkX, l.chunkZ + Num(1)) ELSE c

\* the cascade of a removal
CascadeIfAir(st, s, worldX, worldY, worldZ, blockType) ==
  IF blockType = AIR THEN breakUnsupportedBlocks(st, s, worldX, worldY, worldZ, 0)
  ELSE st

\* setBlock from "chunk.setBlock(..)" on, the chunk under key being loaded
SetBlockLoaded(st, s, key, l, worldX, worldY, worldZ, blockType) ==
  LET written == [SetBlockAt(st, key, l.localX, l.localY, l.localZ, blockType)
                    EXCEPT !.rebuild = SetAdd(@, key)]
      broken == CascadeIfAir(written, s, worldX, worldY, worldZ, blockType)
  IN  IF broken.threw THEN broken
      ELSE RebuildEdges(RebuildAll(broken, 1), l)

\* setBlock without its "if (!chunk) return": the call on the missing chunk
\* throws a TypeError
WorldSetBlock_Unchecked(st, s, worldX, worldY, worldZ, blockType) ==
  LET l == worldToLocal(MathFloor(worldX), MathFloor(worldY), MathFloor(worldZ))
      key == getChunkKey(l.chunkX, l.chunkZ)
  IN  IF ~MapHas(st.m, key) THEN [st EXCEPT !.threw = TRUE]
      ELSE SetBlockLoaded(st, s, key, l, worldX, worldY, worldZ, blockType)

WorldSetBlock(st, s, worldX, worldY, worldZ, blockType) ==
  LET l == worldToLocal(MathFloor(worldX), MathFloor(worldY), MathFloor(worldZ))
      key == getChunkKey(l.chunkX, l.chunkZ)
  IN  IF ~MapHas(st.m, key) THEN st
      ELSE SetBlockLoaded(st, s, key, l, worldX, worldY, worldZ, blockType)

----------------------------------------------------------------------------
(* world/World.ts: update and reset *)

\* "new Chunk(..); chunk.buildMesh(); chunks.set(key, chunk); gameScene.add(..)"
CreateChunk(st, s, chunkX, chunkZ) ==
  LET key == getChunkKey(chunkX, chunkZ)
      chunk == ChunkBuildMesh(NewChunk(s, chunkX, chunkZ))
  IN  [st EXCEPT !.m = MapSet(@, key, chunk),
                 !.scene = @ \cup {key},
                 !.geometries = @ + 2,
                 !.events = @ \o << Ev("new Chunk", key, None, None),
                                    Ev("buildMesh", key, None, None),
                                    Ev("set", key, None, None) >>]

\* the loading loop without its "if (!this.chunks.has(key))"
LoadStep_NoHas(st, s, chunkX, chunkZ) == CreateChunk(st, s, chunkX, chunkZ)

\* one iteration of the loading loops
LoadStep(st, s, chunkX, chunkZ) ==
  IF ~MapHas(st.m, getChunkKey(chunkX, chunkZ))
    THEN CreateChunk(st, s, chunkX, chunkZ)
  ELSE st

\* the loops written with "dx < RENDER_DISTANCE"
Side_Short == 2 * RENDER_DISTANCE

Side == 2 * RENDER_DISTANCE + 1

\* "const next = v; return F(next)": v is evaluated once, before F
Then(v, F(_)) == CHOOSE r \in { F(x) : x \in {v} } : TRUE

\* the nested loops over dx, dz in -RENDER_DISTANCE..RENDER_DISTANCE; the
\* k-th iteration (from 0) has dx = k \div Side - RENDER_DISTANCE and
\* dz = k % Side - RENDER_DISTANCE.  LoadLoop runs iterations lo..hi in
\* order, as the first half followed by the second half.
RECURSIVE LoadLoop(_, _, _, _, _, _)
LoadLoop(st, s, playerChunkX, playerChunkZ, lo, hi) ==
  IF lo > hi THEN st
  ELSE IF lo = hi
    THEN LoadStep(st, s, playerChunkX + Num((lo \div Side) - RENDER_DISTANCE),
                  playerChunkZ + Num((lo % Side) - RENDER_DISTANCE))
  ELSE Then(LoadLoop(st, s, playerChunkX, playerChunkZ, lo, (lo + hi) \div 2),
            LAMBDA next : LoadLoop(next, s, playerChunkX, playerChunkZ,
                                   (lo + hi) \div 2 + 1, hi))

\* the unloading test with "&&" for "||"
TooFar_Both(dx, dz) == dx > Num(RENDER_DISTANCE + 1) /\ dz > Num(RENDER_DISTANCE + 1)

\* the unloading test without the one-chunk band
TooFar_NoBand(dx, dz) == dx > Num(RENDER_DISTANCE) \/ dz > Num(RENDER_DISTANCE)

\* the unloading test on the distances to the player chunk
TooFar(dx, dz) == dx > Num(RENDER_DISTANCE + 1) \/ dz > Num(RENDER_DISTANCE + 1)

\* "gameScene.remove(..); chunk.dispose(); chunks.delete(key)"
RemoveChunk(st, key) ==
  [st EXCEPT !.scene = @ \ {key},
             !.geometries = @ - HeldGeometries(st.m[key]),
             !.m = MapDelete(@, key),
             !.events = @ \o << Ev("dispose", key, None, HeldGeometries(st.m[key])),
                                Ev("delete", key, None, None) >>]

\* one iteration of the unloading loop
UnloadStep(st, key, playerChunkX, playerChunkZ) ==
  LET c == ParseKey(key)
      dx == MathAbs(c[1] - playerChunkX)
      dz == MathAbs(c[2] - playerChunkZ)
  IN  IF TooFar(dx, dz) THEN RemoveChunk(st, key) ELSE st

\* every key the Map can hold here, in a fixed order
AllKeys ==
  [k \in 1..(Cardinality(KeyRange) * Cardinality(KeyRange)) |->
     KeyTable[((k - 1) \div Cardinality(KeyRange)) - (RENDER_DISTANCE + 2),
              ((k - 1) % Cardinality(KeyRange)) - (RENDER_DISTANCE + 2)]]

\* Map.entries(): which entry comes first does not change the result of the
\* loops below, the model visits the entries in the order of AllKeys
MapKeys(m) == SelectSeq(AllKeys, LAMBDA key : MapHas(m, key))

\* the loop over the Map's entries keys[lo..hi], in order
RECURSIVE UnloadLoop(_, _, _, _, _, _)
UnloadLoop(st, keys, playerChunkX, playerChunkZ, lo, hi) ==
  IF lo > hi THEN st
  ELSE IF lo = hi THEN UnloadStep(st, keys[lo], playerChunkX, playerChunkZ)
  ELSE Then(UnloadLoop(st, keys, playerChunkX, playerChunkZ, lo, (lo + hi) \div 2),
            LAMBDA next : UnloadLoop(next, keys, playerChunkX, playerChunkZ,
                                     (lo + hi) \div 2 + 1, hi))

WorldUpdate(st, s, edge, playerX, playerZ) ==
  IF edge
    THEN LoadStep(st, s, 0, 0)
  ELSE LET pc == worldToChunk(playerX, playerZ)
       IN  Then(LoadLoop(st, s, pc[1], pc[2], 0, Side * Side - 1),
                LAMBDA loaded : Then(MapKeys(loaded.m),
                  LAMBDA keys : UnloadLoop(loaded, keys, pc[1], pc[2], 1, Len(keys))))

\* reset: every chunk leaves the scene and is disposed, the Map is cleared
\* one iteration of reset's loop
ResetStep(st, key) ==
  [st EXCEPT !.scene = @ \ {key},
             !.geometries = @ - HeldGeometries(st.m[key]),
             !.m[key] = ChunkDispose(@),
             !.events = Append(@, Ev("dispose", key, None, HeldGeometries(st.m[key])))]

RECURSIVE ResetLoop(_, _, _, _)
ResetLoop(st, keys, lo, hi) ==
  IF lo > hi THEN st
  ELSE IF lo = hi THEN ResetStep(st, keys[lo])
  ELSE Then(ResetLoop(st, keys, lo, (lo + hi) \div 2),
            LAMBDA next : ResetLoop(next, keys, (lo + hi) \div 2 + 1, hi))

WorldReset(st) ==
  Then(MapKeys(st.m),
       LAMBDA keys : [ResetLoop(st, keys, 1, Len(keys)) EXCEPT !.m = EmptyMap])

----------------------------------------------------------------------------
(* The calls made on the World *)

\* seeds handed to terrainGenerator.setSeed
Seeds == {42, 1337}

\* player positions handed to update: (8.5, 8.5) in chunk (0, 0), (16, 8.5)
\* in chunk (1, 0), (8.5, -0.5) in chunk (0, -1), and one RENDER_DISTANCE + 2
\* chunks away along x
Here == <<Num(8) + 1, Num(8) + 1>>
East == <<Num(CHUNK_WIDTH), Num(8) + 1>>
North == <<Num(8) + 1, Num(0) - 1>>
Far == <<Num((RENDER_DISTANCE + 2) * CHUNK_WIDTH + 8) + 1, Num(8) + 1>>

PlayerPositions == {Here, East, North, Far}

\* block coordinates handed to setBlock: every caller passes integers
\* (raycast floors the hit point, snow accumulation works on integers)
EditCells == TrackedCells
EditTypes == {AIR, SNOW}

\* coordinates handed to getBlock: integers, fractions, and y outside the world
QueryPoints ==
  { <<Num(5) + 1, Num(10) + 1, Num(5) + 1>>, Cell(-1, 41, 0),
    Cell(5, -1, 5), Cell(5, CHUNK_HEIGHT, 5) }

Call(op, args, st, ret) ==
  [op |-> op, args |-> args, events |-> st.events, threw |-> st.threw,
   ret |-> ret]

Start == Working(chunks, scene, geometries)

Commit(st) ==
  /\ chunks' = st.m
  /\ scene' = st.scene
  /\ geometries' = st.geometries

\* no update yet, or another call since the last one
NoCentres == << <<>>, <<>>, <<>> >>

Init ==
  /\ chunks = EmptyMap
  /\ scene = {}
  /\ geometries = 0
  /\ seed \in Seeds
  /\ noise = initNoise(seed)
  /\ isEdgeWorld = FALSE
  /\ centres = NoCentres
  /\ gameState = "main_menu"
  /\ worldInitialized = FALSE
  /\ last = Call("new World", <<>>, Working(EmptyMap, {}, 0), None)

\* world.update(playerX, playerZ)
Update(playerX, playerZ) ==
  \E st \in {WorldUpdate(Start, noise, isEdgeWorld, playerX, playerZ)} :
      /\ Commit(st)
      /\ centres' = <<centres[2], centres[3], worldToChunk(playerX, playerZ)>>
      /\ last' = Call("update", <<playerX, playerZ>>, st, None)
      /\ UNCHANGED <<seed, noise, isEdgeWorld, gameState, worldInitialized>>

\* world.setBlock(worldX, worldY, worldZ, blockType)
SetBlock(c, blockType) ==
  \E st \in {WorldSetBlock(Start, noise, c[1], c[2], c[3], blockType)} :
      /\ Commit(st)
      /\ centres' = NoCentres
      /\ last' = Call("setBlock", <<c[1], c[2], c[3], blockType>>, st, None)
      /\ UNCHANGED <<seed, noise, isEdgeWorld, gameState, worldInitialized>>

\* world.getBlock(x, y, z), with isBlockSolidAt and isBlockWaterAt
GetBlock(q) ==
  /\ last' = Call("getBlock", q, Start,
                  << WorldGetBlock(chunks, noise, q[1], q[2], q[3]),
                     isBlockSolidAt(chunks, noise, q[1], q[2], q[3]),
                     isBlockWaterAt(chunks, noise, q[1], q[2], q[3]) >>)
  /\ centres' = NoCentres
  /\ UNCHANGED <<chunks, scene, geometries, seed, noise, isEdgeWorld, gameState, worldInitialized>>

\* world.reset()
Reset ==
  \E st \in {WorldReset(Start)} :
      /\ Commit(st)
      /\ centres' = NoCentres
      /\ last' = Call("reset", <<>>, st, None)
      /\ UNCHANGED <<seed, noise, isEdgeWorld, gameState, worldInitialized>>

\* The start button of the main menu, where no chunk is loaded: the edge
\* world is rolled unless already forced, and the seed is set.
StartButton(s, rolled) ==
  /\ chunks = EmptyMap
  /\ isEdgeWorld' = IF isEdgeWorld THEN TRUE ELSE rolled
  /\ \E gen \in {setSeed([seed |-> seed, noise |-> noise], s)} :
        seed' = gen.seed /\ noise' = gen.noise
  /\ last' = Call("start", <<s>>, Start, None)
  /\ UNCHANGED <<chunks, scene, geometries, centres, gameState, worldInitialized>>

\* The chunk lifecycle: the player moves, blocks are queried, one cell is
\* edited, and the world is reset and restarted.
Next ==
  \/ \E p \in PlayerPositions : Update(p[1], p[2])
  \/ \E q \in QueryPoints : GetBlock(q)
  \/ \E t \in EditTypes : SetBlock(Cell(5, 10, 5), t)
  \/ Reset
  \/ \E s \in Seeds, rolled \in BOOLEAN : StartButton(s, rolled)

Spec == Init /\ [][Next]_vars

\* Editing: every tracked cell is edited while the player stays Here or
\* jumps Far away, which unloads the edited chunks.
NextEdit ==
  \/ \E p \in {Here, Far} : Update(p[1], p[2])
  \/ \E c \in EditCells, t \in EditTypes : SetBlock(c, t)

SpecEdit == Init /\ [][NextEdit]_vars

\* Edits at a chunk seam: the bedrock blocks (15, 1, 5) of chunk (0, 0) and
\* (16, 1, 5) of chunk (1, 0) are broken and replaced while the player stays
\* Here or jumps Far away, which unloads chunk (0, 0) and keeps chunk (1, 0).
NextSeam ==
  \/ \E p \in {Here, Far} : Update(p[1], p[2])
  \/ \E x \in {15, 16}, t \in {AIR, STONE} : SetBlock(Cell(x, 1, 5), t)

SpecSeam == Init /\ [][NextSeam]_vars

----------------------------------------------------------------------------
(* world/Chunk.ts and World.getBlockForChunk, called directly: each call  *)
(* answers with its result and the accesses it made, in order              *)

\* getBlockForChunk without its test of the Y bounds
getBlockForChunkRun_NoYBounds(m, s, worldX, worldY, worldZ) ==
  LET l == worldToLocal(worldX, worldY, worldZ)
      key == getChunkKey(l.chunkX, l.chunkZ)
  IN  IF ~MapHas(m, key)
        THEN [ret |-> TerrainGetBlock(s, worldX, worldY, worldZ),
              events |-> << Ev("terrainGenerator.getBlock", None,
                               <<worldX, worldY, worldZ>>, None) >>]
      ELSE [ret |-> getBlockLocal(m[key], l.localX, l.localY, l.localZ),
            events |-> << Ev("getBlockLocal", key,
                             getIndex(l.localX, l.localY, l.localZ), None) >>]

\* getBlockForChunk: its answer, and the terrain sample or the raw read
\* (getBlockLocal) it made
getBlockForChunkRun(m, s, worldX, worldY, worldZ) ==
  IF worldY < 0 \/ worldY >= Num(CHUNK_HEIGHT)
    THEN [ret |-> TerrainGetBlock(s, worldX, worldY, worldZ),
          events |-> << Ev("terrainGenerator.getBlock", None,
                           <<worldX, worldY, worldZ>>, None) >>]
  ELSE LET l == worldToLocal(worldX, worldY, worldZ)
           key == getChunkKey(l.chunkX, l.chunkZ)
       IN  IF ~MapHas(m, key)
             THEN [ret |-> TerrainGetBlock(s, worldX, worldY, worldZ),
                   events |-> << Ev("terrainGenerator.getBlock", None,
                                    <<worldX, worldY, worldZ>>, None) >>]
           ELSE [ret |-> getBlockLocal(m[key], l.localX, l.localY, l.localZ),
                 events |-> << Ev("getBlockLocal", key,
                                  getIndex(l.localX, l.localY, l.localZ), None) >>]

\* Chunk.getBlock of the chunk stored under key: the read of its own array,
\* or the call of the injected lookup followed by what the lookup did
ChunkGetBlockRun(m, s, key, x, y, z) ==
  IF OutOfChunk(x, y, z)
    THEN LET worldX == m[key].chunkX * CHUNK_WIDTH + x
             worldZ == m[key].chunkZ * CHUNK_DEPTH + z
             r == getBlockForChunkRun(m, s, worldX, y, worldZ)
         IN  [ret |-> r.ret,
              events |-> << Ev("worldBlockGetter", key, <<worldX, y, worldZ>>, None) >>
                           \o r.events]
  ELSE [ret |-> ReadArray(m[key], getIndex(x, y, z)),
        events |-> << Ev("blocks[]", key, getIndex(x, y, z), None) >>]

\* local coordinates handed to Chunk.getBlock and Chunk.setBlock: one cell
\* inside the chunk and the cells one step outside each of its six faces
LocalProbes ==
  { Cell(5, 10, 5), Cell(-1, 41, 0), Cell(CHUNK_WIDTH, 41, 0),
    Cell(5, -1, 5), Cell(5, CHUNK_HEIGHT, 5),
    Cell(0, 41, -1), Cell(15, 41, CHUNK_DEPTH) }

\* the chunks probed: (0, 0), its neighbour (-1, 0), and (3, 0) on the rim
\* of the loaded square
ProbedChunks == { <<Num(0), Num(0)>>, <<Num(0 - 1), Num(0)>>, <<Num(RENDER_DISTANCE), Num(0)>> }

\* world coordinates handed to getBlockForChunk
WorldProbes ==
  { Cell(-1, 41, 0), Cell(0, 41, 0), Cell(5, 10, 5), Cell(5, -1, 5),
    Cell(5, CHUNK_HEIGHT, 5), Cell((RENDER_DISTANCE + 1) * CHUNK_WIDTH, 41, 0) }

\* the blocks written in this specification
ProbeTypes == {AIR, STONE, SNOW}

\* chunk.getBlock(x, y, z) on a loaded chunk
ChunkGetBlockCall(c, p) ==
  /\ MapHas(chunks, getChunkKey(c[1], c[2]))
  /\ \E r \in {ChunkGetBlockRun(chunks, noise, getChunkKey(c[1], c[2]), p[1], p[2], p[3])} :
        last' = [op |-> "Chunk.getBlock",
                 args |-> <<getChunkKey(c[1], c[2]), p[1], p[2], p[3]>>,
                 events |-> r.events, threw |-> FALSE, ret |-> r.ret]
  /\ centres' = NoCentres
  /\ UNCHANGED <<chunks, scene, geometries, seed, noise, isEdgeWorld, gameState, worldInitialized>>

\* chunk.setBlock(x, y, z, blockType) on a loaded chunk
ChunkSetBlockCall(c, p, blockType) ==
  /\ MapHas(chunks, getChunkKey(c[1], c[2]))
  /\ \E st \in {SetBlockAt(Start, getChunkKey(c[1], c[2]), p[1], p[2], p[3], blockType)} :
        /\ Commit(st)
        /\ last' = Call("Chunk.setBlock",
                        <<getChunkKey(c[1], c[2]), p[1], p[2], p[3], blockType>>, st, None)
  /\ centres' = NoCentres
  /\ UNCHANGED <<seed, noise, isEdgeWorld, gameState, worldInitialized>>

\* the injected lookup, called with world coordinates
GetBlockForChunkCall(q) ==
  /\ \E r \in {getBlockForChunkRun(chunks, noise, q[1], q[2], q[3])} :
        last' = [op |-> "getBlockForChunk", args |-> q,
                 events |-> r.events, threw |-> FALSE, ret |-> r.ret]
  /\ centres' = NoCentres
  /\ UNCHANGED <<chunks, scene, geometries, seed, noise, isEdgeWorld, gameState, worldInitialized>>

\* Chunk storage: the world is loaded around the origin, cells on both sides
\* of the boundary between chunks (-1, 0) and (0, 0) are edited, and the
\* chunks and the lookup are queried and written directly.
NextChunk ==
  \/ Update(Here[1], Here[2])
  \/ \E c \in {Cell(-1, 41, 0), Cell(0, 41, 0)}, t \in ProbeTypes : SetBlock(c, t)
  \/ \E c \in ProbedChunks, p \in LocalProbes : ChunkGetBlockCall(c, p)
  \/ \E c \in ProbedChunks, p \in LocalProbes \ {Cell(5, 10, 5)}, t \in ProbeTypes :
        ChunkSetBlockCall(c, p, t)
  \/ \E q \in WorldProbes : GetBlockForChunkCall(q)

SpecChunk == Init /\ [][NextChunk]_vars

----------------------------------------------------------------------------
(* world/Chunk.ts: buildMesh *)

\* an AO curve whose darkest level is 0.2
AO_CURVE_Darker == <<100, 75, 50, 20>>

\* AO_CURVE, in hundredths
AO_CURVE == <<100, 75, 50, 30>>

\* FACES: direction, vertices, uv face (1 top, 2 side, 3 bottom) and
\* brightness in tenths
FACES ==
  << [dir |-> <<0, 1, 0>>, uvFace |-> 1, brightness |-> 10,
      verts |-> << <<0, 1, 1>>, <<1, 1, 1>>, <<1, 1, 0>>, <<0, 1, 0>> >>],
     [dir |-> <<0, -1, 0>>, uvFace |-> 3, brightness |-> 5,
      verts |-> << <<0, 0, 0>>, <<1, 0, 0>>, <<1, 0, 1>>, <<0, 0, 1>> >>],
     [dir |-> <<0, 0, 1>>, uvFace |-> 2, brightness |-> 8,
      verts |-> << <<0, 0, 1>>, <<1, 0, 1>>, <<1, 1, 1>>, <<0, 1, 1>> >>],
     [dir |-> <<0, 0, -1>>, uvFace |-> 2, brightness |-> 8,
      verts |-> << <<1, 0, 0>>, <<0, 0, 0>>, <<0, 1, 0>>, <<1, 1, 0>> >>],
     [dir |-> <<1, 0, 0>>, uvFace |-> 2, brightness |-> 6,
      verts |-> << <<1, 0, 1>>, <<1, 0, 0>>, <<1, 1, 0>>, <<1, 1, 1>> >>],
     [dir |-> <<-1, 0, 0>>, uvFace |-> 2, brightness |-> 6,
      verts |-> << <<0, 0, 0>>, <<0, 0, 1>>, <<0, 1, 1>>, <<0, 1, 0>> >>] >>

\* the uvs column of the block registry: <<top, side, bottom>>
blockUVs ==
  [t \in BlockType |->
     CASE t = GRASS  -> << <<0, 0>>, <<1, 0>>, <<2, 0>> >>
       [] t = DIRT   -> << <<2, 0>>, <<2, 0>>, <<2, 0>> >>
       [] t = STONE  -> << <<3, 0>>, <<3, 0>>, <<3, 0>> >>
       [] t = BEDROCK -> << <<0, 1>>, <<0, 1>>, <<0, 1>> >>
       [] t = SAND   -> << <<1, 1>>, <<1, 1>>, <<1, 1>> >>
       [] t = WATER  -> << <<2, 1>>, <<2, 1>>, <<2, 1>> >>
       [] t = WOOD   -> << <<3, 1>>, <<0, 2>>, <<3, 1>> >>
       [] t = LEAVES -> << <<1, 2>>, <<1, 2>>, <<1, 2>> >>
       [] t = SNOW   -> << <<2, 2>>, <<2, 2>>, <<2, 2>> >>
       [] OTHER      -> << <<0, 0>>, <<0, 0>>, <<0, 0>> >>]

\* getBlockUVs, in units of TILE_SIZE (a quarter of the atlas)
getBlockUVs(blockType, face) ==
  LET u == blockUVs[blockType][face][1]
      v == 4 - (blockUVs[blockType][face][2] + 1)
  IN  <<u, v, u + 1, v + 1>>

isBlockTransparent(blockType) == blockRegistry[blockType].transparent

isPartialBlock(blockType) ==
  blockRegistry[blockType].height16 < 16 /\ blockType # AIR

\* the visibility test of buildMesh with "not solid" for "transparent"
FaceVisible_NotSolid(blockType, neighbor) ==
  IF isBlockWater(blockType) THEN neighbor = AIR
  ELSE IF isPartialBlock(blockType) THEN TRUE
  ELSE ~isBlockSolid(neighbor)

\* "determine if face should be visible"
FaceVisible(blockType, neighbor) ==
  IF isBlockWater(blockType) THEN neighbor = AIR
  ELSE IF isPartialBlock(blockType) THEN TRUE
  ELSE isBlockTransparent(neighbor)

\* an isBlockOccluding for which partial blocks occlude as well
isBlockOccluding_Partial(m, s, chunk, x, y, z) ==
  LET block == ChunkGetBlock(m, s, chunk, MathFloor(x), MathFloor(y), MathFloor(z))
  IN  ~(block = AIR \/ isBlockTransparent(block))

isBlockOccluding(m, s, chunk, x, y, z) ==
  LET block == ChunkGetBlock(m, s, chunk, MathFloor(x), MathFloor(y), MathFloor(z))
  IN  IF block = AIR \/ isBlockTransparent(block) THEN FALSE
      ELSE IF isPartialBlock(block) THEN FALSE
      ELSE TRUE

\* calculateVertexAO: b is the block (local coordinates), n the face normal,
\* v the vertex in sixteenths of a block, blockHeight in sixteenths
calculateVertexAO(m, s, chunk, b, n, v, blockHeight) ==
  LET t1 == IF n[2] # 0 THEN <<1, 0, 0>> ELSE IF n[1] # 0 THEN <<0, 1, 0>> ELSE <<1, 0, 0>>
      t2 == IF n[2] # 0 THEN <<0, 0, 1>> ELSE IF n[1] # 0 THEN <<0, 0, 1>> ELSE <<0, 1, 0>>
      c == <<8 * b[1] + 8, 8 * b[2] + blockHeight \div 2, 8 * b[3] + 8>>
      d1 == (v[1] - c[1]) * t1[1] + (v[2] - c[2]) * t1[2] + (v[3] - c[3]) * t1[3]
      d2 == (v[1] - c[1]) * t2[1] + (v[2] - c[2]) * t2[2] + (v[3] - c[3]) * t2[3]
      s1 == IF d1 > 0 THEN 1 ELSE 0 - 1
      s2 == IF d2 > 0 THEN 1 ELSE 0 - 1
      base == <<b[1] + Num(n[1]), b[2] + Num(n[2]), b[3] + Num(n[3])>>
      side1 == isBlockOccluding(m, s, chunk, base[1] + Num(s1 * t1[1]),
                                base[2] + Num(s1 * t1[2]), base[3] + Num(s1 * t1[3]))
      side2 == isBlockOccluding(m, s, chunk, base[1] + Num(s2 * t2[1]),
                                base[2] + Num(s2 * t2[2]), base[3] + Num(s2 * t2[3]))
      corner == isBlockOccluding(m, s, chunk,
                                 base[1] + Num(s1 * t1[1] + s2 * t2[1]),
                                 base[2] + Num(s1 * t1[2] + s2 * t2[2]),
                                 base[3] + Num(s1 * t1[3] + s2 * t2[3]))
      bit(p) == IF p THEN 1 ELSE 0
  IN  IF side1 /\ side2 THEN 3 ELSE bit(side1) + bit(side2) + bit(corner)

\* an addFace that always triangulates along the diagonal 0-2
addFace_NoFlip(m, s, chunk, startIndex, face, blockType, b, isWater, blockHeight) ==
  LET verts == [i \in 1..4 |->
                  << 8 * b[1] + 16 * face.verts[i][1],
                     8 * b[2] + blockHeight * face.verts[i][2],
                     8 * b[3] + 16 * face.verts[i][3] >>]
      uv == getBlockUVs(blockType, face.uvFace)
      aoValues == [i \in 1..4 |->
                     IF isWater THEN 0
                     ELSE calculateVertexAO(m, s, chunk, b, face.dir, verts[i], blockHeight)]
  IN  [block |-> b,
       positions |-> verts,
       normals |-> face.dir,
       uvs |-> <<uv[1], uv[2], uv[3], uv[2], uv[3], uv[4], uv[1], uv[4]>>,
       colors |-> [i \in 1..4 |-> face.brightness * AO_CURVE[aoValues[i] + 1]],
       indices |-> <<startIndex, startIndex + 1, startIndex + 2,
                     startIndex, startIndex + 2, startIndex + 3>>]

\* addFace: what one face pushes on the buffers, startIndex being the number
\* of vertices pushed before.  Positions are in sixteenths of a block,
\* brightness in thousandths; the normal is pushed once per vertex and each
\* brightness three times.
addFace(m, s, chunk, startIndex, face, blockType, b, isWater, blockHeight) ==
  LET verts == [i \in 1..4 |->
                  << 8 * b[1] + 16 * face.verts[i][1],
                     8 * b[2] + blockHeight * face.verts[i][2],
                     8 * b[3] + 16 * face.verts[i][3] >>]
      uv == getBlockUVs(blockType, face.uvFace)
      aoValues == [i \in 1..4 |->
                     IF isWater THEN 0
                     ELSE calculateVertexAO(m, s, chunk, b, face.dir, verts[i], blockHeight)]
  IN  [block |-> b,
       positions |-> verts,
       normals |-> face.dir,
       uvs |-> <<uv[1], uv[2], uv[3], uv[2], uv[3], uv[4], uv[1], uv[4]>>,
       colors |-> [i \in 1..4 |-> face.brightness * AO_CURVE[aoValues[i] + 1]],
       indices |-> IF aoValues[1] + aoValues[3] > aoValues[2] + aoValues[4]
                     THEN <<startIndex + 1, startIndex + 2, startIndex + 3,
                            startIndex + 1, startIndex + 3, startIndex>>
                   ELSE <<startIndex, startIndex + 1, startIndex + 2,
                          startIndex, startIndex + 2, startIndex + 3>>]

\* The cells whose faces the model builds, in the order of buildMesh's loops
\* within each chunk: the loops of buildMesh run over these cells instead of
\* the 16 x 64 x 16 cells of the chunk.
MeshCells == << Cell(-1, 40, 0), Cell(-1, 41, 0), Cell(0, 41, 0) >>

\* the loops of buildMesh from step k on: step k is face ((k - 1) % 6) + 1 of
\* cell ((k - 1) \div 6) + 1 of cells (local coordinates); buf holds the solid
\* and the water buffers as the faces pushed so far
RECURSIVE BuildMeshLoop(_, _, _, _, _, _)
BuildMeshLoop(m, s, chunk, cells, k, buf) ==
  IF k > 6 * Len(cells) THEN buf
  ELSE LET b == cells[((k - 1) \div 6) + 1]
           face == FACES[((k - 1) % 6) + 1]
           blockType == ChunkGetBlock(m, s, chunk, b[1], b[2], b[3])
           neighbor == ChunkGetBlock(m, s, chunk, b[1] + Num(face.dir[1]),
                                     b[2] + Num(face.dir[2]), b[3] + Num(face.dir[3]))
           height == IF blockType = AIR THEN 16 ELSE blockRegistry[blockType].height16
       IN  IF blockType = AIR \/ ~FaceVisible(blockType, neighbor)
             THEN BuildMeshLoop(m, s, chunk, cells, k + 1, buf)
           ELSE IF isBlockWater(blockType)
             THEN BuildMeshLoop(m, s, chunk, cells, k + 1,
                    [buf EXCEPT !.water = Append(@,
                       addFace(m, s, chunk, 4 * Len(buf.water), face, blockType, b, TRUE, height))])
           ELSE BuildMeshLoop(m, s, chunk, cells, k + 1,
                    [buf EXCEPT !.solid = Append(@,
                       addFace(m, s, chunk, 4 * Len(buf.solid), face, blockType, b, FALSE, height))])

\* the geometry buffers buildMesh hands to the two meshes of the chunk
\* stored under key
BuildMeshBuffers(m, s, key) ==
  LET own == SelectSeq(MeshCells,
               LAMBDA c : getChunkKey(FloorDiv(c[1], CHUNK_WIDTH), FloorDiv(c[3], CHUNK_DEPTH)) = key)
      cells == [i \in 1..Len(own) |->
                  << own[i][1] - m[key].chunkX * CHUNK_WIDTH, own[i][2],
                     own[i][3] - m[key].chunkZ * CHUNK_DEPTH >>]
  IN  BuildMeshLoop(m, s, m[key], cells, 1, [solid |-> <<>>, water |-> <<>>])

\* the blocks placed in the meshed cells
MeshTypes == {AIR, STONE, WATER, LEAVES, SNOW}

\* chunk.buildMesh() on a loaded chunk
BuildMeshCall(c) ==
  /\ MapHas(chunks, getChunkKey(c[1], c[2]))
  /\ \E st \in {BuildMeshAt(Start, getChunkKey(c[1], c[2]))} :
        /\ Commit(st)
        /\ last' = Call("Chunk.buildMesh", <<getChunkKey(c[1], c[2])>>, st,
                        BuildMeshBuffers(chunks, noise, getChunkKey(c[1], c[2])))
  /\ centres' = NoCentres
  /\ UNCHANGED <<seed, noise, isEdgeWorld, gameState, worldInitialized>>

\* Meshing: the world is loaded around the origin, blocks of every kind are
\* placed in the meshed cells, and the two chunks that hold them are meshed.
NextMesh ==
  \/ Update(Here[1], Here[2])
  \/ \E i \in 1..Len(MeshCells), t \in MeshTypes : SetBlock(MeshCells[i], t)
  \/ \E c \in { <<Num(0), Num(0)>>, <<Num(0 - 1), Num(0)>> } : BuildMeshCall(c)

SpecMesh == Init /\ [][NextMesh]_vars

----------------------------------------------------------------------------
(* world/TerrainGenerator.ts, called directly *)

\* calls of the generator kept in the trace
MaxCalls == 4

TerrainOps == {"terrainGenerator.setSeed", "terrainGenerator.getBlock",
               "terrainGenerator.getHeight"}

\* the calls made on the generator since the last call of anything else
TerrainTrace == IF last.op \in TerrainOps THEN last.events ELSE <<>>

\* terrainGenerator.setSeed(s)
SetSeedCall(s) ==
  /\ Len(TerrainTrace) < MaxCalls
  /\ \E gen \in {setSeed([seed |-> seed, noise |-> noise], s)} :
        seed' = gen.seed /\ noise' = gen.noise
  /\ last' = [op |-> "terrainGenerator.setSeed", args |-> <<s>>,
              events |-> Append(TerrainTrace, Ev("setSeed", None, s, None)),
              threw |-> FALSE, ret |-> None]
  /\ UNCHANGED <<chunks, scene, geometries, isEdgeWorld, centres, gameState, worldInitialized>>

\* terrainGenerator.getBlock(q)
TerrainGetBlockCall(q) ==
  /\ Len(TerrainTrace) < MaxCalls
  /\ \E r \in {TerrainGetBlock(noise, q[1], q[2], q[3])} :
        last' = [op |-> "terrainGenerator.getBlock", args |-> q,
                 events |-> Append(TerrainTrace, Ev("getBlock", None, q, r)),
                 threw |-> FALSE, ret |-> r]
  /\ UNCHANGED <<chunks, scene, geometries, seed, noise, isEdgeWorld, centres, gameState, worldInitialized>>

\* terrainGenerator.getHeight(q.x, q.z)
TerrainGetHeightCall(q) ==
  /\ Len(TerrainTrace) < MaxCalls
  /\ \E r \in {getHeight(noise, q[1], q[3])} :
        last' = [op |-> "terrainGenerator.getHeight", args |-> <<q[1], q[3]>>,
                 events |-> Append(TerrainTrace, Ev("getHeight", None, <<q[1], q[3]>>, r)),
                 threw |-> FALSE, ret |-> r]
  /\ UNCHANGED <<chunks, scene, geometries, seed, noise, isEdgeWorld, centres, gameState, worldInitialized>>

\* terrainGenerator.getBlock at height y of a column where the three octaves
\* of noise2D are n1, n2, n3 and noise3D is cave
ColumnGetBlockCall(n1, n2, n3, cave, y) ==
  /\ last' = [op |-> "getBlock of noise", args |-> <<n1, n2, n3, cave, Num(y)>>,
              events |-> <<>>, threw |-> FALSE,
              ret |-> BlockOf(HeightOf(n1, n2, n3), cave, Num(y))]
  /\ UNCHANGED <<chunks, scene, geometries, seed, noise, isEdgeWorld, centres, gameState, worldInitialized>>

\* The generator: it is reseeded and sampled in any order, at the floor of
\* one column and the surface of another; and columns are sampled from below
\* the world up to the sea, and around their surface down to the caves, for
\* values of the noise functions (in thousandths) at the ends of the range
\* the library returns and between.
NextTerrain ==
  \/ \E s \in Seeds : SetSeedCall(s)
  \/ \E q \in {Cell(8, 1, 8), Cell(0, 39, 0)} : TerrainGetBlockCall(q)
  \/ \E q \in {Cell(8, 1, 8), Cell(0, 39, 0)} : TerrainGetHeightCall(q)
  \/ \E n1, n2, n3 \in {0 - 1000, 0 - 900, 0, 1000}, cave \in {0, 700} :
        \E y \in {0 - 1, 0, 1, 2, SEA_LEVEL, SEA_LEVEL + 1}
                 \cup { ToInt(HeightOf(n1, n2, n3)) + k : k \in {0 - 7, 0 - 4, 0 - 3, 0 - 1, 0, 1} } :
          ColumnGetBlockCall(n1, n2, n3, cave, y)

SpecTerrain == Init /\ [][NextTerrain]_vars

----------------------------------------------------------------------------
(* entities/Entity.ts: collision resolution *)

\* Positions and sizes of entities are in thousandths of a block, velocities
\* in blocks per second and time steps in milliseconds, so that a velocity
\* times a time step is in thousandths of a block.
PLAYER_WIDTH == 600
PLAYER_HEIGHT == 1800

\* Math.floor of a position: the block it lies in
FloorOf(p) == p \div 1000

getBlockBounds(position, halfWidth, height) ==
  [minX |-> FloorOf(position[1] - halfWidth), maxX |-> FloorOf(position[1] + halfWidth),
   minY |-> FloorOf(position[2]),             maxY |-> FloorOf(position[2] + height),
   minZ |-> FloorOf(position[3] - halfWidth), maxZ |-> FloorOf(position[3] + halfWidth)]

checkCollision(m, s, position, bounds) ==
  LET b == getBlockBounds(position, bounds.width \div 2, bounds.height)
  IN  \E x \in b.minX..b.maxX, y \in b.minY..b.maxY, z \in b.minZ..b.maxZ :
        isBlockSolidAt(m, s, Num(x), Num(y), Num(z))

\* a resolveCollisions whose Z move starts from the position the Y move
\* gave, before its correction
resolveCollisions_ZFromY(m, s, e, deltaTime) ==
  LET dx == e.velocity[1] * deltaTime
      movedX == [e EXCEPT !.position[1] = @ + dx]
      hitX == checkCollision(m, s, movedX.position, e.bounds)
      afterX == IF hitX
                  THEN [movedX EXCEPT !.position[1] = @ - dx, !.velocity[1] = 0]
                ELSE movedX
      dy == afterX.velocity[2] * deltaTime
      movedY == [afterX EXCEPT !.position[2] = @ + dy]
      hitY == checkCollision(m, s, movedY.position, e.bounds)
      afterY == IF hitY
                  THEN IF movedY.velocity[2] < 0
                         THEN [movedY EXCEPT !.position[2] = FloorOf(@) * 1000 + 1001,
                                             !.grounded = TRUE, !.velocity[2] = 0]
                       ELSE [movedY EXCEPT !.position[2] = @ - dy, !.velocity[2] = 0]
                ELSE [movedY EXCEPT !.grounded = FALSE]
      dz == afterY.velocity[3] * deltaTime
      movedZ == [movedY EXCEPT !.position[3] = @ + dz]
      hitZ == checkCollision(m, s, movedZ.position, e.bounds)
      afterZ == IF hitZ
                  THEN [movedZ EXCEPT !.position[3] = @ - dz, !.velocity[3] = 0]
                ELSE movedZ
  IN  [entity |-> afterZ, hit |-> <<hitX, hitY, hitZ>>,
       at |-> <<afterX.position, afterY.position, afterZ.position>>]

\* resolveCollisions on the entity e: the entity it leaves, the collisions
\* reported on the three axes, and the position after each axis was handled
resolveCollisions(m, s, e, deltaTime) ==
  LET dx == e.velocity[1] * deltaTime
      movedX == [e EXCEPT !.position[1] = @ + dx]
      hitX == checkCollision(m, s, movedX.position, e.bounds)
      afterX == IF hitX
                  THEN [movedX EXCEPT !.position[1] = @ - dx, !.velocity[1] = 0]
                ELSE movedX
      dy == afterX.velocity[2] * deltaTime
      movedY == [afterX EXCEPT !.position[2] = @ + dy]
      hitY == checkCollision(m, s, movedY.position, e.bounds)
      afterY == IF hitY
                  THEN IF movedY.velocity[2] < 0
                         THEN [movedY EXCEPT !.position[2] = FloorOf(@) * 1000 + 1001,
                                             !.grounded = TRUE, !.velocity[2] = 0]
                       ELSE [movedY EXCEPT !.position[2] = @ - dy, !.velocity[2] = 0]
                ELSE [movedY EXCEPT !.grounded = FALSE]
      dz == afterY.velocity[3] * deltaTime
      movedZ == [afterY EXCEPT !.position[3] = @ + dz]
      hitZ == checkCollision(m, s, movedZ.position, e.bounds)
      afterZ == IF hitZ
                  THEN [movedZ EXCEPT !.position[3] = @ - dz, !.velocity[3] = 0]
                ELSE movedZ
  IN  [entity |-> afterZ, hit |-> <<hitX, hitY, hitZ>>,
       at |-> <<afterX.position, afterY.position, afterZ.position>>]

\* the surface height of the column the entity is put in
GroundY == ToInt(getHeight(noise, Num(8), Num(8)))

\* entity.resolveCollisions(deltaTime) on an entity of the player's size that
\* starts clear of every solid block
ResolveCollisionsCall(start, velocity, deltaTime) ==
  /\ \E e \in {[position |-> start, velocity |-> velocity, grounded |-> FALSE,
                bounds |-> [width |-> PLAYER_WIDTH, height |-> PLAYER_HEIGHT]]} :
        /\ ~checkCollision(chunks, noise, e.position, e.bounds)
        /\ last' = [op |-> "Entity.resolveCollisions",
                    args |-> <<e, deltaTime>>, events |-> <<>>, threw |-> FALSE,
                    ret |-> resolveCollisions(chunks, noise, e, deltaTime)]
  /\ centres' = NoCentres
  /\ UNCHANGED <<chunks, scene, geometries, seed, noise, isEdgeWorld, gameState, worldInitialized>>

\* Entities: the world is loaded around the entity; a block is placed and
\* removed above the head of an entity standing in the column; the entity is
\* moved one step from the middle of the column (standing on the ground,
\* half a block above it, a block and a half above it), walking or not
\* along x and z, falling at the terminal speed, at a lesser speed or at
\* the speed one step of gravity gives, or jumping, for a frame at 60 per
\* second or for the caller's clamp of 0.1 s.
NextEntity ==
  \/ Update(Here[1], Here[2])
  \/ \E t \in {AIR, STONE} : SetBlock(<<Num(8), Num(GroundY + 3), Num(8)>>, t)
  \/ \E up \in {1, 500, 1500}, vx \in {0, 5}, vy \in {0 - 50, 0 - 20, 0 - 2, 8},
        vz \in {0, 5}, deltaTime \in {16, 100} :
        ResolveCollisionsCall(<<8500, 1000 * (GroundY + 1) + up, 8500>>,
                              <<vx, vy, vz>>, deltaTime)

SpecEntity == Init /\ [][NextEntity]_vars

----------------------------------------------------------------------------
(* world/World.ts: the spawn search *)

\* getSpawnHeight: the loop over y from hi down to lo, walked as its upper
\* half and then its lower half: the first solid block met, None if none
RECURSIVE SpawnHeightLoop(_, _, _, _, _, _)
SpawnHeightLoop(m, s, x, z, lo, hi) ==
  IF lo = hi
    THEN (IF isBlockSolid(WorldGetBlock(m, s, x, Num(hi), z)) THEN Num(hi + 1) ELSE None)
  ELSE LET mid == (lo + hi) \div 2
           upper == SpawnHeightLoop(m, s, x, z, mid + 1, hi)
       IN  IF upper # None THEN upper ELSE SpawnHeightLoop(m, s, x, z, lo, mid)

\* a getSpawnHeight that samples the terrain generator instead of the world
getSpawnHeight_Terrain(m, s, x, z) == getHeight(s, x, z) + Num(1)

\* 30 when no block of the column is solid
getSpawnHeight(m, s, x, z) ==
  LET top == SpawnHeightLoop(m, s, x, z, 0, CHUNK_HEIGHT - 1)
  IN  IF top = None THEN Num(30) ELSE top

isSpawnSafe(s, x, z) ==
  LET surfaceY == getHeight(s, x, z)
  IN  IF surfaceY < Num(SEA_LEVEL) THEN FALSE
      ELSE IF ~isBlockSolid(TerrainGetBlock(s, x, surfaceY, z)) THEN FALSE
      ELSE /\ TerrainGetBlock(s, x, surfaceY + Num(1), z) = AIR
           /\ TerrainGetBlock(s, x, surfaceY + Num(2), z) = AIR

\* a spiral movement whose arms never grow
SpiralMove_NoGrow(c) ==
  LET moved == [c EXCEPT !.x = @ + Num(c.dx), !.z = @ + Num(c.dz),
                         !.stepsTaken = @ + 1]
  IN  IF moved.stepsTaken >= moved.stepsInDirection
        THEN [moved EXCEPT !.stepsTaken = 0, !.dx = 0 - moved.dz,
                           !.dz = moved.dx, !.turnCount = @ + 1]
      ELSE moved

\* the spiral movement of findSafeSpawn: one step, and a turn when the arm
\* is walked, the arms growing at every second turn
SpiralMove(c) ==
  LET moved == [c EXCEPT !.x = @ + Num(c.dx), !.z = @ + Num(c.dz),
                         !.stepsTaken = @ + 1]
  IN  IF moved.stepsTaken >= moved.stepsInDirection
        THEN [moved EXCEPT !.stepsTaken = 0, !.dx = 0 - moved.dz,
                           !.dz = moved.dx, !.turnCount = @ + 1,
                           !.stepsInDirection =
                              IF (moved.turnCount + 1) % 2 = 0 THEN @ + 1 ELSE @]
      ELSE moved

\* the loop of findSafeSpawn from iteration i on, and the fallback after it;
\* events holds the cells handed to isSpawnSafe
RECURSIVE SpawnLoop(_, _, _, _, _, _, _, _)
SpawnLoop(m, s, startX, startZ, maxRadius, c, i, events) ==
  LET fallback == [ret |-> <<startX, getSpawnHeight(m, s, startX, startZ), startZ>>,
                   events |-> events]
  IN  IF ~(i < maxRadius * maxRadius * 4) THEN fallback
      ELSE IF isSpawnSafe(s, c.x, c.z)
        THEN [ret |-> <<c.x + 1, getSpawnHeight(m, s, c.x + 1, c.z + 1), c.z + 1>>,
              events |-> Append(events, Ev("isSpawnSafe", None, <<c.x, c.z>>, TRUE))]
      ELSE LET next == SpiralMove(c)
               seen == Append(events, Ev("isSpawnSafe", None, <<c.x, c.z>>, FALSE))
           IN  IF \/ MathAbs(next.x - startX) > Num(maxRadius)
                  \/ MathAbs(next.z - startZ) > Num(maxRadius)
                 THEN [fallback EXCEPT !.events = seen]
               ELSE SpawnLoop(m, s, startX, startZ, maxRadius, next, i + 1, seen)

findSafeSpawn(m, s, startX, startZ, maxRadius) ==
  SpawnLoop(m, s, startX, startZ, maxRadius,
            [x |-> MathFloor(startX), z |-> MathFloor(startZ), dx |-> 0, dz |-> 0 - 1,
             stepsInDirection |-> 1, stepsTaken |-> 0, turnCount |-> 0],
            0, <<>>)

\* targets of the search: the player's (8.5, 8.5), and integer and fractional
\* targets on and beside the low ground of the two seeds
SpawnTargets ==
  { <<Num(8) + 1, Num(8) + 1>>, <<Num(0 - 25) + 1, Num(1) + 1>>,
    <<Num(0 - 26), Num(2)>>, <<Num(0 - 19), Num(0 - 3) + 1>>,
    <<Num(0 - 32), Num(0 - 22)>>, <<Num(0 - 31) + 1, Num(0) + 1>> }

\* the cell on the ground of the player's column
SpawnEditCell == <<Num(8), Num(GroundY + 1), Num(8)>>

\* world.findSafeSpawn(startX, startZ, maxRadius)
FindSafeSpawnCall(target, maxRadius) ==
  /\ \E r \in {findSafeSpawn(chunks, noise, target[1], target[2], maxRadius)} :
        last' = [op |-> "findSafeSpawn", args |-> <<target[1], target[2], maxRadius>>,
                 events |-> r.events, threw |-> FALSE, ret |-> r.ret]
  /\ centres' = NoCentres
  /\ UNCHANGED <<chunks, scene, geometries, seed, noise, isEdgeWorld, gameState, worldInitialized>>

\* The spawn search: the world is loaded around the player, a block is put
\* on the ground of the player's column and taken away, and a spawn is
\* searched around several targets.
NextSpawn ==
  \/ Update(Here[1], Here[2])
  \/ \E t \in {AIR, STONE} : SetBlock(SpawnEditCell, t)
  \/ \E target \in SpawnTargets, maxRadius \in 0..3 :
        FindSafeSpawnCall(target, maxRadius)

SpecSpawn == Init /\ [][NextSpawn]_vars

----------------------------------------------------------------------------
(* player/Physics.ts: water physics *)

\* Velocities are in hundredths of a block per second and time steps in
\* milliseconds; the drag rate and the drag factor are in thousandths.
WATER_GRAVITY == 3
WATER_MAX_SWIM_SPEED == 300
WATER_MAX_HORIZONTAL_SPEED == 450
WATER_DRAG == 4000

\* Math.sqrt, rounded down: the root lies in lo..hi
RECURSIVE SqrtBetween(_, _, _)
SqrtBetween(n, lo, hi) ==
  IF lo = hi THEN lo
  ELSE LET mid == (lo + hi + 1) \div 2
       IN  IF mid * mid <= n THEN SqrtBetween(n, mid, hi)
           ELSE SqrtBetween(n, lo, mid - 1)

\* Vector3.length()
VectorLength(v) ==
  LET n == v[1] * v[1] + v[2] * v[2] + v[3] * v[3]
  IN  SqrtBetween(n, 0, MathAbs(v[1]) + MathAbs(v[2]) + MathAbs(v[3]))

\* Math.exp(-t) for t >= 0 in thousandths, within a few thousandths: e^-1 = 0.368
\* once per whole unit of t, times the series of e^-f for the fraction f
RECURSIVE ExpSeries(_, _, _)
ExpSeries(f, k, term) ==
  IF k > 8 \/ term = 0 THEN 0
  ELSE term + ExpSeries(f, k + 1, (0 - (term * f)) \div (1000 * k))

RECURSIVE MathExpNeg(_)
MathExpNeg(t) ==
  IF t >= 1000 THEN (368 * MathExpNeg(t - 1000)) \div 1000
  ELSE ExpSeries(t, 1, 1000)

\* an applyWaterPhysics without the clamp of velocity.z
applyWaterPhysics_XOnly(velocity, deltaTime) ==
  LET speed == VectorLength(velocity)
      over == IF speed - 500 > 0 THEN speed - 500 ELSE 0
      effectiveDrag == WATER_DRAG + (over * 10) \div 2
      dragFactor == MathExpNeg((effectiveDrag * deltaTime) \div 1000)
      x == (velocity[1] * dragFactor) \div 1000
      y == (velocity[2] * dragFactor) \div 1000 - (WATER_GRAVITY * deltaTime) \div 10
      z == (velocity[3] * dragFactor) \div 1000
      min(a, b) == IF a < b THEN a ELSE b
      max(a, b) == IF a > b THEN a ELSE b
  IN  << max(0 - WATER_MAX_HORIZONTAL_SPEED, min(WATER_MAX_HORIZONTAL_SPEED, x)),
         min(y, WATER_MAX_SWIM_SPEED), z >>

\* applyWaterPhysics: the velocity it leaves
applyWaterPhysics(velocity, deltaTime) ==
  LET speed == VectorLength(velocity)
      over == IF speed - 500 > 0 THEN speed - 500 ELSE 0
      effectiveDrag == WATER_DRAG + (over * 10) \div 2
      dragFactor == MathExpNeg((effectiveDrag * deltaTime) \div 1000)
      x == (velocity[1] * dragFactor) \div 1000
      y == (velocity[2] * dragFactor) \div 1000 - (WATER_GRAVITY * deltaTime) \div 10
      z == (velocity[3] * dragFactor) \div 1000
      min(a, b) == IF a < b THEN a ELSE b
      max(a, b) == IF a > b THEN a ELSE b
  IN  << max(0 - WATER_MAX_HORIZONTAL_SPEED, min(WATER_MAX_HORIZONTAL_SPEED, x)),
         min(y, WATER_MAX_SWIM_SPEED),
         max(0 - WATER_MAX_HORIZONTAL_SPEED, min(WATER_MAX_HORIZONTAL_SPEED, z)) >>

\* applyWaterPhysics(velocity, deltaTime)
ApplyWaterPhysicsCall(velocity, deltaTime) ==
  /\ last' = [op |-> "applyWaterPhysics", args |-> <<velocity, deltaTime>>,
              events |-> <<>>, threw |-> FALSE,
              ret |-> applyWaterPhysics(velocity, deltaTime)]
  /\ UNCHANGED <<chunks, scene, geometries, seed, noise, isEdgeWorld, centres, gameState, worldInitialized>>

\* Water physics: velocities at rest, at the swimming and walking speeds, at
\* the swim-up impulse and at the terminal falling speed, for no time at
\* all, a frame at 60 per second, and the caller's clamp of 0.1 s.
NextWater ==
  \E vx \in {0 - 1500, 0 - 460, 0, 450, 1500}, vz \in {0 - 5000, 0, 500, 1500},
     vy \in {0 - 5000, 0 - 300, 0, 290, 310, 1000},
     deltaTime \in {0, 16, 100} :
    ApplyWaterPhysicsCall(<<vx, vy, vz>>, deltaTime)

SpecWater == Init /\ [][NextWater]_vars

----------------------------------------------------------------------------
(* effects/SnowAccumulation.ts and the mouse handler of player/Player.ts *)

isBlockReplaceable(blockType) == blockRegistry[blockType].replaceable

\* getSurfaceBlock: the loop over y from hi down to lo, walked as its upper
\* half and then its lower half: the y of the first block met that is not
\* AIR, None if the column is empty
RECURSIVE SurfaceLoop(_, _, _, _, _, _)
SurfaceLoop(m, s, x, z, lo, hi) ==
  IF lo = hi
    THEN (IF WorldGetBlock(m, s, x, Num(hi), z) # AIR THEN Num(hi) ELSE None)
  ELSE LET mid == (lo + hi) \div 2
           upper == SurfaceLoop(m, s, x, z, mid + 1, hi)
       IN  IF upper # None THEN upper ELSE SurfaceLoop(m, s, x, z, lo, mid)

getSurfaceBlock(m, s, x, z) == SurfaceLoop(m, s, x, z, 0, CHUNK_HEIGHT - 1)

\* tryPlaceSnow: snow on the surface block of the column unless that is
\* water, snow or leaves, the cell above it is taken, or one of the eight
\* cells above that is solid
tryPlaceSnow(st, s, worldX, worldZ) ==
  LET y == getSurfaceBlock(st.m, s, worldX, worldZ)
      blockType == WorldGetBlock(st.m, s, worldX, y, worldZ)
      above == WorldGetBlock(st.m, s, worldX, y + Num(1), worldZ)
  IN  IF y = None THEN st
      ELSE IF blockType = WATER \/ blockType = SNOW \/ blockType = LEAVES THEN st
      ELSE IF above # AIR THEN st
      ELSE IF \E checkY \in 2..9 :
                isBlockSolid(WorldGetBlock(st.m, s, worldX, y + Num(checkY), worldZ))
        THEN st
      ELSE WorldSetBlock(st, s, worldX, y + Num(1), worldZ, SNOW)

\* One position of a pass of SnowAccumulation.update: a pass pops up to ten
\* random positions of the chunks around the player and calls tryPlaceSnow
\* for each, one after the other.
TryPlaceSnowCall(worldX, worldZ) ==
  \E st \in {tryPlaceSnow(Start, noise, worldX, worldZ)} :
      /\ Commit(st)
      /\ centres' = NoCentres
      /\ last' = Call("tryPlaceSnow", <<worldX, worldZ>>, st, None)
      /\ UNCHANGED <<seed, noise, isEdgeWorld, gameState, worldInitialized>>

\* world.raycast intersects the solid meshes of the chunks: it hits the
\* face towards normal of the block at blockPos when buildMesh emits that
\* face, which it does for a block that is neither AIR nor water and whose
\* face is visible
RayHits(m, s, blockPos, normal) ==
  LET block == WorldGetBlock(m, s, blockPos[1], blockPos[2], blockPos[3])
      neighbor == WorldGetBlock(m, s, blockPos[1] + Num(normal[1]),
                                blockPos[2] + Num(normal[2]),
                                blockPos[3] + Num(normal[3]))
  IN  block # AIR /\ ~isBlockWater(block) /\ FaceVisible(block, neighbor)

\* the body of the mousedown listener after a hit: the left button breaks
\* the block hit, the right button places the selected block in the cell
\* before it when that cell is replaceable
mousedown(st, s, button, blockPos, normal, selectedBlock) ==
  LET placePos == <<blockPos[1] + Num(normal[1]), blockPos[2] + Num(normal[2]),
                    blockPos[3] + Num(normal[3])>>
      targetBlock == WorldGetBlock(st.m, s, placePos[1], placePos[2], placePos[3])
  IN  IF button = 0
        THEN WorldSetBlock(st, s, blockPos[1], blockPos[2], blockPos[3], AIR)
      ELSE IF button = 2 /\ isBlockReplaceable(targetBlock)
        THEN WorldSetBlock(st, s, placePos[1], placePos[2], placePos[3], selectedBlock)
      ELSE st

\* A click with the pointer locked on a block in reach; selectedBlock is
\* DIRT or what the keydown listener last stored, one of the types 1..8.
MouseDown(button, blockPos, normal, selectedBlock) ==
  /\ RayHits(chunks, noise, blockPos, normal)
  /\ \E st \in {mousedown(Start, noise, button, blockPos, normal, selectedBlock)} :
        /\ Commit(st)
        /\ centres' = NoCentres
        /\ last' = Call("mousedown", <<button, blockPos, normal, selectedBlock>>, st, None)
        /\ UNCHANGED <<seed, noise, isEdgeWorld, gameState, worldInitialized>>

\* Snow and the player: the player stands Here or far away and clicks on the
\* blocks of the column (5, 5) at the generated surface and one above it:
\* breaking from above and from the west, and placing from above a block of
\* each kind of registry row (DIRT, to which the other opaque solids are
\* alike but for their texture, LEAVES or WATER); snow falls on that column
\* and on the one west of it.
NextSnow ==
  \/ \E p \in {Here, Far} : Update(p[1], p[2])
  \/ \E k \in 0..1, selectedBlock \in {DIRT, WATER, LEAVES} :
       \E click \in { <<0, ADJACENT_DIRECTIONS[1]>>, <<0, ADJACENT_DIRECTIONS[4]>>,
                       <<2, ADJACENT_DIRECTIONS[1]>> } :
          MouseDown(click[1], <<Num(5), getHeight(noise, Num(5), Num(5)) + Num(k), Num(5)>>,
                    click[2], selectedBlock)
  \/ \E worldX \in {4, 5} : TryPlaceSnowCall(Num(worldX), Num(5))

SpecSnow == Init /\ [][NextSnow]_vars

----------------------------------------------------------------------------
(* main.ts, state/GameState.ts and the buttons of ui/MenuManager.ts: the    *)
(* game-state machine, from the moment init() has shown the main menu and   *)
(* registered its listener                                                  *)

\* the listener of main.ts that leaves out "world.reset()"
onStateChange_NoReset(st, s, edge, initialized, state) ==
  LET begun == state = "playing" /\ ~initialized
      loaded == IF begun THEN WorldUpdate(st, s, edge, Num(0), Num(0)) ELSE st
  IN  [st |-> loaded,
       worldInitialized |-> IF state = "main_menu" THEN FALSE ELSE initialized \/ begun]

\* The listener main.ts registers with gameState.onStateChange, run on the
\* working state st with the flag worldInitialized: the first "playing"
\* loads the chunks around the origin (and spawns the player, which reads
\* the world only), "main_menu" resets an initialised world.
onStateChange(st, s, edge, initialized, state) ==
  LET begun == state = "playing" /\ ~initialized
      loaded == IF begun THEN WorldUpdate(st, s, edge, Num(0), Num(0)) ELSE st
  IN  IF state = "main_menu" /\ (initialized \/ begun)
        THEN [st |-> WorldReset(loaded), worldInitialized |-> FALSE]
      ELSE [st |-> loaded, worldInitialized |-> initialized \/ begun]

\* gameState.setState(newState): nothing when the state is newState
\* already, the listeners otherwise; op and args name the handler that
\* makes the call
SetState(newState, s, edge, op, args) ==
  \E r \in { IF gameState = newState
               THEN [st |-> Start, worldInitialized |-> worldInitialized]
             ELSE onStateChange(Start, s, edge, worldInitialized, newState) } :
      /\ gameState' = newState
      /\ worldInitialized' = r.worldInitialized
      /\ Commit(r.st)
      /\ centres' = NoCentres
      /\ last' = Call(op, args, r.st, None)

\* The singleplayer button, which the main menu shows: the edge world is
\* rolled unless forced already, the seed is set, and the game starts.
SingleplayerClick(s, rolled) ==
  /\ gameState = "main_menu"
  /\ isEdgeWorld' = (isEdgeWorld \/ rolled)
  /\ \E gen \in {setSeed([seed |-> seed, noise |-> noise], s)} :
        /\ seed' = gen.seed
        /\ noise' = gen.noise
        /\ SetState("playing", gen.noise, isEdgeWorld \/ rolled, "singleplayer", <<s>>)

\* the resume button, which the pause menu shows
ResumeClick ==
  /\ gameState = "paused"
  /\ SetState("playing", noise, isEdgeWorld, "resume", <<>>)
  /\ UNCHANGED <<seed, noise, isEdgeWorld>>

\* the back-to-menu button, which the pause menu shows
BackToMenuClick ==
  /\ gameState = "paused"
  /\ SetState("main_menu", noise, isEdgeWorld, "back to menu", <<>>)
  /\ UNCHANGED <<seed, noise, isEdgeWorld>>

\* the Escape key, or the loss of the pointer lock, while playing outside
\* the edge world
Pause ==
  /\ gameState = "playing" /\ ~isEdgeWorld
  /\ SetState("paused", noise, isEdgeWorld, "pause", <<>>)
  /\ UNCHANGED <<seed, noise, isEdgeWorld>>

\* One frame of gameLoop while playing, the player being at (playerX,
\* playerZ): world.update, and winterEffects.update, which on a frame where
\* snow accumulates (in December, every five seconds) tries positions
\* around the player, here the column (5, 5).
GameLoop(playerX, playerZ, snow) ==
  /\ gameState = "playing"
  /\ \E moved \in {WorldUpdate(Start, noise, isEdgeWorld, playerX, playerZ)} :
       \E st \in { IF snow THEN tryPlaceSnow(moved, noise, Num(5), Num(5)) ELSE moved } :
          /\ Commit(st)
          /\ centres' = NoCentres
          /\ last' = Call("gameLoop", <<playerX, playerZ, snow>>, st, None)
  /\ UNCHANGED <<seed, noise, isEdgeWorld, gameState, worldInitialized>>

NextGame ==
  \/ \E s \in Seeds, rolled \in BOOLEAN : SingleplayerClick(s, rolled)
  \/ ResumeClick
  \/ BackToMenuClick
  \/ Pause
  \/ \E p \in PlayerPositions, snow \in BOOLEAN : GameLoop(p[1], p[2], snow)

SpecGame == Init /\ [][NextGame]_vars

----------------------------------------------------------------------------
(* utils: hashSeed, and the seeded random source of the TerrainGenerator *)

\* String.charCodeAt for the characters of the seed strings used here:
\* digits, the minus sign and lower-case letters
charCodeAt(str, i) ==
  IF CharAt(str, i) = "-" THEN 45
  ELSE IF \E d \in 0..9 : DigitChar(d) = CharAt(str, i)
    THEN 48 + DigitValue(CharAt(str, i))
  ELSE 96 + (CHOOSE k \in 1..26 : CharAt("abcdefghijklmnopqrstuvwxyz", k) = CharAt(str, i))

\* "hash = ((hash << 5) - hash) + char; hash = hash | 0": 31 * hash + char
\* wrapped to a signed 32-bit integer, computed on the 16-bit halves of hash
HashStep(hash, char) ==
  LET lo == (hash % 65536) * 31 + char
      hi == (((hash \div 65536) % 65536) * 31 + (lo \div 65536)) % 65536
  IN  (IF hi >= 32768 THEN hi - 65536 ELSE hi) * 65536 + (lo % 65536)

RECURSIVE HashLoop(_, _, _)
HashLoop(str, i, hash) ==
  IF i > Len(str) THEN hash
  ELSE HashLoop(str, i + 1, HashStep(hash, charCodeAt(str, i)))

\* hashSeed: the number itself for a string that is the decimal form of an
\* integer ("parsed.toString() === seed.trim()"), the Java hashCode otherwise
hashSeed(str) ==
  LET negative == Len(str) >= 1 /\ CharAt(str, 1) = "-"
      body == IF negative THEN SubSeq(str, 2, Len(str)) ELSE str
      decimal == /\ Len(body) >= 1
                 /\ \A i \in 1..Len(body) : \E d \in 0..9 : DigitChar(d) = CharAt(body, i)
                 /\ CharAt(body, 1) = "0" => (Len(body) = 1 /\ ~negative)
  IN  IF decimal
        THEN (IF negative THEN 0 - ParseDigits(body, 1, 0) ELSE ParseDigits(body, 1, 0))
      ELSE HashLoop(str, 1, 0)

\* One call of the function createSeededRandom returns, on its captured
\* variable: "seed = (seed * 9301 + 49297) % 233280".  The remainder of
\* JavaScript has the sign of the dividend, which is negative from seed = -6
\* down; the product is exact in a double for every 32-bit seed and is
\* reduced here modulo 233280 factor by factor (9301 = 93 * 100 + 1).
seededRandom(state) ==
  LET r == state % 233280
      m == (((((r * 93) % 233280) * 100 + r) % 233280) + 49297) % 233280
  IN  IF state >= 0 - 5 \/ m = 0 THEN m ELSE m - 233280

\* draws taken from one random source
MaxDraws == 12

\* The singleplayer button with seedString in the seed field:
\* terrainGenerator.setSeed(hashSeed(seedString)), whose initNoise makes a
\* random source that starts at the seed.  The captured variable of the
\* source is last.ret[1], the number of values drawn last.ret[2].
SeedEntered(seedString) ==
  /\ \E gen \in {setSeed([seed |-> seed, noise |-> noise], hashSeed(seedString))} :
        seed' = gen.seed /\ noise' = gen.noise
  /\ last' = Call("createSeededRandom", <<seedString>>, Start,
                  <<hashSeed(seedString), 0, None>>)
  /\ UNCHANGED <<chunks, scene, geometries, isEdgeWorld, centres, gameState, worldInitialized>>

\* One call of the random source, as createNoise2D and createNoise3D make
\* them while they build their tables: the new value of the captured
\* variable, and the numerator of the value returned, "seed / 233280".
SeededRandomCall ==
  /\ last.op \in {"createSeededRandom", "seededRandom"}
  /\ last.ret[2] < MaxDraws
  /\ last' = Call("seededRandom", last.args, Start,
                  <<seededRandom(last.ret[1]), last.ret[2] + 1, seededRandom(last.ret[1])>>)
  /\ UNCHANGED <<chunks, scene, geometries, seed, noise, isEdgeWorld, centres, gameState, worldInitialized>>

NextRandom ==
  \/ \E seedString \in {"42", "1337", "0", "-5", "-6", "-2147483647", "2147483647",
                        "007", "-0", "seed", "world", "terrain", "bedrock", "herobrine"} :
        SeedEntered(seedString)
  \/ SeededRandomCall

SpecRandom == Init /\ [][NextRandom]_vars

----------------------------------------------------------------------------
(* Vocabulary of the properties *)

\* the coordinates of the loaded chunks
LoadedCoords == { <<chunks[k].chunkX, chunks[k].chunkZ>> : k \in DOMAIN chunks }

\* the chunk coordinates within Chebyshev distance d of chunk pc
Square(pc, d) ==
  { <<pc[1] + Num(dx), pc[2] + Num(dz)>> : dx \in (0 - d)..d, dz \in (0 - d)..d }

\* (floor(x/16), floor(z/16)) of the last call's arguments
PlayerChunk(call) == <<FloorDiv(call.args[1], 16), FloorDiv(call.args[2], 16)>>

\* the events of a call that are of the kinds in evs
EventsOf(call, evs) == { i \in 1..Len(call.events) : call.events[i].ev \in evs }

\* two chunk coordinates that differ by one on one axis
Adjacent(a, b) ==
  /\ a # <<>> /\ b # <<>>
  /\ \/ MathAbs(a[1] - b[1]) = Num(1) /\ a[2] = b[2]
     \/ a[1] = b[1] /\ MathAbs(a[2] - b[2]) = Num(1)

----------------------------------------------------------------------------
(* Chunk lifecycle *)

\* C1 as stated: after every update, every chunk coordinate within
\* Chebyshev distance RENDER_DISTANCE of the player chunk is loaded.
C1_AllInRangeLoaded ==
  last.op = "update" =>
    Square(PlayerChunk(last), RENDER_DISTANCE) \subseteq LoadedCoords

\* C1 amended: with edge-world mode off, after every update every chunk
\* coordinate within Chebyshev distance RENDER_DISTANCE of the player chunk
\* is loaded; in edge-world mode update only ensures chunk (0, 0).
C1_AllInRangeLoadedUnlessEdge ==
  last.op = "update" =>
    IF isEdgeWorld THEN <<0, 0>> \in LoadedCoords
    ELSE Square(PlayerChunk(last), RENDER_DISTANCE) \subseteq LoadedCoords

\* an update far from the previous one has created chunks and kept others
C1_Witness ==
  /\ last.op = "update" /\ ~isEdgeWorld
  /\ PlayerChunk(last) = <<Num(RENDER_DISTANCE + 2), 0>>
  /\ EventsOf(last, {"new Chunk"}) # {}
  /\ ~(LoadedCoords \subseteq Square(PlayerChunk(last), RENDER_DISTANCE))

\* every chunk a call deleted from the Map was disposed first, and no
\* geometry of a chunk that is gone is left alive
RemovedAreDisposed(call) ==
  /\ \A i \in EventsOf(call, {"delete"}) :
        \E j \in EventsOf(call, {"dispose"}) :
          j < i /\ call.events[j].key = call.events[i].key /\ call.events[j].val = 2
  /\ geometries = 2 * Cardinality(DOMAIN chunks)

\* no loaded chunk farther than RENDER_DISTANCE + 1 from the player chunk
NoneBeyondBand(call) ==
  LoadedCoords \subseteq Square(PlayerChunk(call), RENDER_DISTANCE + 1)

\* update at chunk (0, 0) followed by update at chunk (R + 2, 0) leaves
\* chunk (0, 0) unloaded
FarMoveUnloadsOrigin ==
  (centres[2] = <<0, 0>> /\ centres[3] = <<Num(RENDER_DISTANCE + 2), 0>>) =>
     <<0, 0>> \notin LoadedCoords

\* C2 as stated: after every update no loaded chunk is farther than
\* RENDER_DISTANCE + 1 on either axis, every removed chunk was disposed, and
\* moving from chunk (0, 0) to chunk (R + 2, 0) unloads chunk (0, 0).
C2_NoneBeyondBand ==
  last.op = "update" =>
    NoneBeyondBand(last) /\ RemovedAreDisposed(last) /\ FarMoveUnloadsOrigin

\* C2 amended: the same with edge-world mode off; in edge-world mode update
\* unloads nothing.
C2_NoneBeyondBandUnlessEdge ==
  last.op = "update" =>
    IF isEdgeWorld THEN EventsOf(last, {"dispose", "delete"}) = {}
    ELSE NoneBeyondBand(last) /\ RemovedAreDisposed(last) /\ FarMoveUnloadsOrigin

\* the move from chunk (0, 0) to chunk (R + 2, 0) has deleted chunk (0, 0)
C2_Witness ==
  /\ last.op = "update" /\ ~isEdgeWorld
  /\ centres[2] = <<0, 0>> /\ centres[3] = <<Num(RENDER_DISTANCE + 2), 0>>
  /\ \E i \in EventsOf(last, {"delete"}) : last.events[i].key = getChunkKey(0, 0)

\* C3: an update whose centre is that of the update two calls before, the
\* update in between having had a centre one chunk away on one axis,
\* creates no chunk and disposes no chunk.
C3_Hysteresis ==
  (last.op = "update" /\ centres[1] = centres[3] /\ Adjacent(centres[2], centres[3])) =>
     EventsOf(last, {"new Chunk", "dispose", "delete"}) = {}

\* the third update of an alternation over a chunk boundary, the band loaded
C3_Witness ==
  /\ last.op = "update" /\ ~isEdgeWorld
  /\ centres = << <<0, 0>>, <<Num(1), 0>>, <<0, 0>> >>
  /\ Cardinality(LoadedCoords) = (2 * RENDER_DISTANCE + 1) * (2 * RENDER_DISTANCE + 2)

\* at most one loaded chunk per coordinate pair
OneChunkPerCoordinate ==
  \A k1, k2 \in DOMAIN chunks :
    (chunks[k1].chunkX = chunks[k2].chunkX /\ chunks[k1].chunkZ = chunks[k2].chunkZ)
      => k1 = k2

\* an update step creates no chunk at a loaded coordinate and leaves every
\* loaded chunk within RENDER_DISTANCE + 1 of the new centre as it was,
\* voxels included
UpdateKeepsLoaded ==
  last'.op = "update" =>
    /\ \A i \in EventsOf(last', {"new Chunk"}) : last'.events[i].key \notin DOMAIN chunks
    /\ \A k \in DOMAIN chunks :
          <<chunks[k].chunkX, chunks[k].chunkZ>>
              \in Square(PlayerChunk(last'), RENDER_DISTANCE + 1)
            => k \in DOMAIN chunks' /\ chunks'[k] = chunks[k]

\* C4: in every reachable state there is at most one loaded chunk per
\* coordinate pair, and update never replaces or regenerates a loaded chunk:
\* the voxels of a chunk that stays within RENDER_DISTANCE + 1 are kept.
C4_OneChunkKept == []OneChunkPerCoordinate /\ [][UpdateKeepsLoaded]_vars

\* a voxel written by setBlock (the terrain holds no snow) is there after a
\* later update that moved the player
C4_Witness ==
  /\ last.op = "update" /\ centres[2] # <<>> /\ centres[2] # centres[3]
  /\ WorldGetBlock(chunks, noise, Num(5), Num(10), Num(5)) = SNOW

----------------------------------------------------------------------------
(* Block mutation and the support cascade *)

\* the cell a setBlock or getBlock call names, floored
CellOfCall(call) ==
  <<MathFloor(call.args[1]), MathFloor(call.args[2]), MathFloor(call.args[3])>>

\* the coordinates of the chunk that owns a cell
OwnerOf(c) == <<FloorDiv(c[1], 16), FloorDiv(c[3], 16)>>

\* the cell j above c
Up(c, j) == <<c[1], c[2] + Num(j), c[3]>>

\* the block the world m holds at an integer cell (empty where no chunk is)
Voxel(m, c) == WorldGetBlock(m, noise, c[1], c[2], c[3])

\* the array slot (key, index) of an integer cell
SlotOf(c) ==
  <<getChunkKey(OwnerOf(c)[1], OwnerOf(c)[2]),
    (ToInt(c[2]) * 16 * 16) + ((ToInt(c[3]) % 16) * 16) + (ToInt(c[1]) % 16)>>

\* the cell of the array slot (k, i) of a loaded chunk
CellOfSlot(m, k, i) ==
  <<m[k].chunkX * 16 + IndexX(i), IndexY(i), m[k].chunkZ * 16 + IndexZ(i)>>

\* the array slots whose value differs between the worlds m and n, which
\* hold the same chunks
ChangedSlots(m, n) ==
  { sl \in UNION { {k} \X (DOMAIN m[k].blocks \cup DOMAIN n[k].blocks) : k \in DOMAIN m } :
      ReadArray(m[sl[1]], Num(sl[2])) # ReadArray(n[sl[1]], Num(sl[2])) }

\* the number of snow blocks stacked directly on cell c
ChainLength(m, c) ==
  CHOOSE n \in 0..CHUNK_HEIGHT :
    /\ \A j \in 1..n : Voxel(m, Up(c, j)) = SNOW
    /\ Voxel(m, Up(c, n + 1)) # SNOW

ChainSlots(m, c) == { SlotOf(Up(c, j)) : j \in 0..ChainLength(m, c) }

\* no support-dependent block of m is without a block beneath it
AllSupported(m) ==
  \A k \in DOMAIN m : \A i \in DOMAIN m[k].blocks :
    m[k].blocks[i] = SNOW => Voxel(m, Up(CellOfSlot(m, k, i), 0 - 1)) # AIR

\* the step is a setBlock(.., AIR) on a block that holds up a chain of snow
BreaksChainSupport ==
  /\ last'.op = "setBlock" /\ last'.args[4] = AIR
  /\ OwnerOf(CellOfCall(last')) \in LoadedCoords
  /\ Voxel(chunks, CellOfCall(last')) # AIR
  /\ ChainLength(chunks, CellOfCall(last')) >= 1

\* the broken block and its chain are empty afterwards
ChainEmptied ==
  \A j \in 0..ChainLength(chunks, CellOfCall(last')) :
    Voxel(chunks', Up(CellOfCall(last'), j)) = AIR

CascadeEntries(call) == EventsOf(call, {"breakBlockWithCascade"})

\* the call entered breakBlockWithCascade for the cell c
EnteredFor(call, c) ==
  \E i \in CascadeEntries(call) :
    call.events[i].key = SlotOf(c)[1] /\ call.events[i].at = Num(SlotOf(c)[2])

C6_CascadeTerminates ==
  [][last'.op = "setBlock" =>
       /\ ~last'.threw
       /\ \A i \in CascadeEntries(last') :
             /\ last'.events[i].key \in DOMAIN chunks
             /\ ReadArray(chunks[last'.events[i].key], last'.events[i].at) = SNOW
       /\ \A i, j \in CascadeEntries(last') :
             (last'.events[i].key = last'.events[j].key
                /\ last'.events[i].at = last'.events[j].at) => i = j]_vars

\* the removal of the lowest block of a column of snow has taken the two
\* blocks above with it
C6_Witness ==
  /\ last.op = "setBlock" /\ last.args = <<Num(5), Num(9), Num(5), AIR>>
  /\ EnteredFor(last, <<Num(5), Num(10), Num(5)>>)
  /\ EnteredFor(last, <<Num(5), Num(11), Num(5)>>)
  /\ ~last.threw

\* the chunks a call wrote a voxel of
Touched(call) == { call.events[i].key : i \in EventsOf(call, {"setBlock"}) }

\* the buildMesh calls a call made on the chunk under key
Remeshes(call, key) == { i \in EventsOf(call, {"buildMesh"}) : call.events[i].key = key }

\* C7 as stated: within one setBlock call every chunk touched by the edit
\* or by a cascade removal is re-meshed exactly once, after all the voxel
\* writes.
C7_RemeshedOnce ==
  last.op = "setBlock" =>
    \A key \in Touched(last) :
      /\ Cardinality(Remeshes(last, key)) = 1
      /\ \A i \in Remeshes(last, key) : \A j \in EventsOf(last, {"setBlock"}) : j < i

\* the chunks sharing a boundary face with the edited local coordinate
FaceNeighbours(c) ==
  { n \in { <<OwnerOf(c)[1] - Num(1), OwnerOf(c)[2]>>, <<OwnerOf(c)[1] + Num(1), OwnerOf(c)[2]>>,
            <<OwnerOf(c)[1], OwnerOf(c)[2] - Num(1)>>, <<OwnerOf(c)[1], OwnerOf(c)[2] + Num(1)>> } :
      \/ n[1] < OwnerOf(c)[1] /\ ToInt(c[1]) % 16 = 0
      \/ n[1] > OwnerOf(c)[1] /\ ToInt(c[1]) % 16 = 15
      \/ n[2] < OwnerOf(c)[2] /\ ToInt(c[3]) % 16 = 0
      \/ n[2] > OwnerOf(c)[2] /\ ToInt(c[3]) % 16 = 15 }

\* C8: a setBlock on a loaded chunk at a local coordinate on a boundary
\* face re-meshes the loaded chunk sharing that face, whatever the new type
\* and whether or not a cascade ran; and it re-meshes no chunk other than
\* the owner, the chunks of the cascade and these face neighbours.
C8_FaceNeighbourRemeshed ==
  (last.op = "setBlock" /\ OwnerOf(CellOfCall(last)) \in LoadedCoords) =>
    /\ \A n \in FaceNeighbours(CellOfCall(last)) \cap LoadedCoords :
          Remeshes(last, getChunkKey(n[1], n[2])) # {}
    /\ \A i \in EventsOf(last, {"buildMesh"}) :
          last.events[i].key \in
            Touched(last) \cup {SlotOf(CellOfCall(last))[1]}
              \cup { getChunkKey(n[1], n[2]) : n \in FaceNeighbours(CellOfCall(last)) }

\* snow placed at local (15, 40, 0) of chunk (-1, 0): no cascade, and the
\* chunks across the x face and across the z face are re-meshed
C8_Witness ==
  /\ last.op = "setBlock" /\ last.args = <<Num(0 - 1), Num(40), Num(0), SNOW>>
  /\ CascadeEntries(last) = {}
  /\ Remeshes(last, getChunkKey(Num(0), Num(0))) # {}
  /\ Remeshes(last, getChunkKey(Num(0 - 1), Num(0 - 1))) # {}

\* the query of the last call was for a cell of a chunk that is not loaded
QueriedUnloaded == last.op = "getBlock" /\ OwnerOf(CellOfCall(last)) \notin LoadedCoords

\* the terrain generator's sample at the queried cell
SampleAtQuery ==
  TerrainGetBlock(noise, CellOfCall(last)[1], CellOfCall(last)[2], CellOfCall(last)[3])

\* C9 as stated: getBlock (and isBlockSolidAt, isBlockWaterAt) on a cell of
\* a chunk that is not loaded answers with the terrain generator's sample.
C9_TerrainFallback ==
  QueriedUnloaded =>
    last.ret = <<SampleAtQuery, isBlockSolid(SampleAtQuery), isBlockWater(SampleAtQuery)>>

\* C9 amended: getBlock on a cell of a chunk that is not loaded answers AIR
\* (so isBlockSolidAt and isBlockWaterAt answer false), without failing.
C9_AirWhenUnloaded ==
  QueriedUnloaded => (last.ret = <<AIR, FALSE, FALSE>> /\ ~last.threw)

\* an unloaded cell where the terrain generator samples a solid block
C9_Witness ==
  /\ QueriedUnloaded /\ chunks # EmptyMap
  /\ isBlockSolid(SampleAtQuery) /\ last.ret[1] = AIR

\* C10: setBlock on a cell of a chunk that is not loaded changes no voxel,
\* runs no cascade, re-meshes nothing and raises no error.
C10_IgnoredWhenUnloaded ==
  [][(last'.op = "setBlock" /\ OwnerOf(CellOfCall(last')) \notin LoadedCoords) =>
       /\ chunks' = chunks /\ scene' = scene /\ geometries' = geometries
       /\ last'.events = <<>> /\ ~last'.threw]_vars

\* a setBlock(.., AIR) on a chunk unloaded by the player's move
C10_Witness ==
  /\ last.op = "setBlock" /\ last.args[4] = AIR
  /\ OwnerOf(CellOfCall(last)) \notin LoadedCoords /\ chunks # EmptyMap
  /\ last.events = <<>>

----------------------------------------------------------------------------
(* Chunk storage and the injected lookup *)

\* the local coordinates of a direct call on a chunk
LocalOfCall(call) == <<call.args[2], call.args[3], call.args[4]>>

\* the world coordinates that the local coordinates of the call stand for
WorldOfCall(call) ==
  <<chunks[call.args[1]].chunkX * 16 + call.args[2], call.args[3],
    chunks[call.args[1]].chunkZ * 16 + call.args[4]>>

\* the local coordinates of the call lie outside [0,16) x [0,64) x [0,16)
OutOfRangeCall(call) ==
  LET p == LocalOfCall(call)
  IN  ~(/\ 0 <= p[1] /\ p[1] < Num(16) /\ 0 <= p[2] /\ p[2] < Num(64)
        /\ 0 <= p[3] /\ p[3] < Num(16))

\* the last call was chunk.getBlock with out-of-range coordinates: no access
\* of the call is to the chunk's own array, the lookup was called with the
\* world coordinates, and the answer is the lookup's
GetDelegates ==
  (last.op = "Chunk.getBlock" /\ OutOfRangeCall(last)) =>
    /\ \A i \in 1..Len(last.events) :
          last.events[i].ev \in {"blocks[]", "getBlockLocal"} =>
             last.events[i].key # last.args[1]
    /\ last.events[1].ev = "worldBlockGetter" /\ last.events[1].at = WorldOfCall(last)
    /\ last.ret = getBlockForChunk(chunks, noise, WorldOfCall(last)[1],
                                   WorldOfCall(last)[2], WorldOfCall(last)[3])

\* a step that is chunk.setBlock with out-of-range coordinates changes no chunk
SetIgnored ==
  (last'.op = "Chunk.setBlock" /\ OutOfRangeCall(last')) => chunks' = chunks

\* C11: Chunk.getBlock with a local coordinate out of range never indexes
\* the chunk's own array and answers with the injected lookup's answer for
\* the corresponding world coordinate; Chunk.setBlock with a local
\* coordinate out of range leaves every voxel unchanged.
C11_OutOfRangeDelegates == []GetDelegates /\ [][SetIgnored]_vars

\* chunk (0, 0) asked for its local (-1, 41, 0) answers with the snow that
\* was placed in chunk (-1, 0), read from that chunk's array
C11_Witness ==
  /\ last.op = "Chunk.getBlock"
  /\ last.args = <<getChunkKey(Num(0), Num(0)), Num(0 - 1), Num(41), Num(0)>>
  /\ last.ret = SNOW
  /\ TerrainGetBlock(noise, Num(0 - 1), Num(41), Num(0)) # SNOW
  /\ Len(last.events) = 2 /\ last.events[2].ev = "getBlockLocal"

\* the world coordinates of a getBlockForChunk call lie in a loaded chunk,
\* with 0 <= y < 64
InLoadedChunk(q) ==
  /\ 0 <= q[2] /\ q[2] < Num(64)
  /\ <<FloorDiv(q[1], 16), FloorDiv(q[3], 16)>> \in LoadedCoords

\* the last call was getBlockForChunk: inside a loaded chunk it made one raw
\* read of the owner's array at the slot of the cell and answers with the
\* stored value; elsewhere it made one terrain sample and answers with it
LookupAnswers ==
  last.op = "getBlockForChunk" =>
    /\ Len(last.events) = 1
    /\ IF InLoadedChunk(last.args)
         THEN /\ last.events[1].ev = "getBlockLocal"
              /\ <<last.events[1].key, ToInt(last.events[1].at)>> = SlotOf(last.args)
              /\ last.ret = Voxel(chunks, last.args)
         ELSE /\ last.events[1].ev = "terrainGenerator.getBlock"
              /\ last.ret = TerrainGetBlock(noise, last.args[1], last.args[2], last.args[3])

\* the last call was chunk.getBlock: the lookup is called at most once, and
\* nothing follows it but one raw read or one terrain sample
OneDelegation ==
  last.op = "Chunk.getBlock" =>
    /\ Cardinality(EventsOf(last, {"worldBlockGetter"})) <= 1
    /\ Cardinality(EventsOf(last, {"blocks[]"})) + Cardinality(EventsOf(last, {"worldBlockGetter"})) = 1
    /\ Len(last.events) <= 2

\* C20: getBlockForChunk answers with the raw stored voxel of the owning
\* chunk when 0 <= y < 64 and that chunk is loaded, and with the terrain
\* generator's sample otherwise; it calls no Chunk.getBlock, so a
\* Chunk.getBlock call delegates at most once.
C20_LookupRawOrTerrain == LookupAnswers /\ OneDelegation

\* the lookup asked for (0, 41, 0), where stone was placed: the stored stone
\* is the answer, not the terrain's sample
C20_Witness ==
  /\ last.op = "getBlockForChunk" /\ last.args = <<Num(0), Num(41), Num(0)>>
  /\ last.ret = STONE
  /\ TerrainGetBlock(noise, Num(0), Num(41), Num(0)) # STONE

----------------------------------------------------------------------------
(* Meshing *)

\* the meshed cells of the chunk the buildMesh call was made on
MeshedCells(call) ==
  { MeshCells[i] : i \in { j \in 1..Len(MeshCells) : SlotOf(MeshCells[j])[1] = call.args[1] } }

\* the faces in buffer buf of the call's output that belong to the cell c
\* (world coordinates) and look in direction dir
FacesAt(call, buf, c, dir) ==
  { j \in 1..Len(buf) :
      /\ buf[j].block = << c[1] - chunks[call.args[1]].chunkX * 16, c[2],
                           c[3] - chunks[call.args[1]].chunkZ * 16 >>
      /\ buf[j].normals = dir }

\* the face of cell c in direction dir is in the output exactly as the
\* registry says: once in the water buffer when c holds a fluid and the
\* neighbour is empty, once in the solid buffer when c holds a partial block
\* or a full block with a transparent neighbour, and not at all otherwise
FaceAsRegistered(call, c, dir) ==
  LET block == Voxel(chunks, c)
      neighbour == Voxel(chunks, <<c[1] + Num(dir[1]), c[2] + Num(dir[2]), c[3] + Num(dir[3])>>)
      inSolid == Cardinality(FacesAt(call, call.ret.solid, c, dir))
      inWater == Cardinality(FacesAt(call, call.ret.water, c, dir))
  IN  IF block = AIR THEN inSolid = 0 /\ inWater = 0
      ELSE IF blockRegistry[block].fluid
        THEN inSolid = 0 /\ inWater = (IF neighbour = AIR THEN 1 ELSE 0)
      ELSE IF blockRegistry[block].height16 < 16
        THEN inSolid = 1 /\ inWater = 0
      ELSE inWater = 0
           /\ inSolid = (IF blockRegistry[neighbour].transparent THEN 1 ELSE 0)

\* C12: in the output of buildMesh a face of a full-height non-fluid block is
\* present iff the neighbour in that direction is transparent per the
\* registry, a face of a fluid block iff that neighbour is empty, and all six
\* faces of a partial block are present.
C12_FacesCulledByRegistry ==
  last.op = "Chunk.buildMesh" =>
    \A c \in MeshedCells(last) :
      \A dir \in { ADJACENT_DIRECTIONS[i] : i \in 1..6 } : FaceAsRegistered(last, c, dir)

\* stone under snow next to water: the stone's top face is culled by the
\* snow, which the registry does not list as transparent; the snow has its
\* six faces; the water shows no face towards the snow
C12_Witness ==
  /\ last.op = "Chunk.buildMesh" /\ last.args = <<getChunkKey(Num(0 - 1), Num(0))>>
  /\ Voxel(chunks, Cell(-1, 40, 0)) = STONE
  /\ Voxel(chunks, Cell(-1, 41, 0)) = SNOW
  /\ Voxel(chunks, Cell(0, 41, 0)) = WATER
  /\ FacesAt(last, last.ret.solid, Cell(-1, 40, 0), <<0, 1, 0>>) = {}
  /\ \A i \in 1..6 : FacesAt(last, last.ret.solid, Cell(-1, 41, 0), ADJACENT_DIRECTIONS[i]) # {}

C14_BrightnessInRange ==
  last.op = "Chunk.buildMesh" =>
    /\ \A j \in 1..Len(last.ret.solid) : \A i \in 1..4 :
          150 <= last.ret.solid[j].colors[i] /\ last.ret.solid[j].colors[i] <= 1000
    /\ \A j \in 1..Len(last.ret.water) : \A i \in 1..4 :
          150 <= last.ret.water[j].colors[i] /\ last.ret.water[j].colors[i] <= 1000

\* a mesh holding a vertex at the darkest level on a bottom face (0.15) and
\* a vertex at full brightness
C14_Witness ==
  /\ last.op = "Chunk.buildMesh"
  /\ \E j \in 1..Len(last.ret.solid) : \E i \in 1..4 : last.ret.solid[j].colors[i] = 150
  /\ \E j \in 1..Len(last.ret.solid) : \E i \in 1..4 : last.ret.solid[j].colors[i] = 1000


----------------------------------------------------------------------------
(* The terrain generator *)

\* the seed handed to the latest setSeed before call i of the trace, if any
SeedGiven(trace, i) ==
  LET sets == { j \in 1..(i - 1) : trace[j].ev = "setSeed" }
  IN  IF sets = {} THEN None
      ELSE trace[CHOOSE j \in sets : \A k \in sets : k <= j].at

\* what a generator constructed with seed s answers to the call ev at "at"
FreshAnswer(s, ev, at) ==
  IF ev = "getBlock" THEN TerrainGetBlock(initNoise(s), at[1], at[2], at[3])
  ELSE getHeight(initNoise(s), at[1], at[2])

\* C15: for a fixed seed given to setSeed, getBlock and getHeight return for
\* the same coordinates the same result on every call, whatever calls were
\* made in between and whatever the seed was before: each sample in a trace
\* of calls is the answer of a generator newly built with the seed last given.
C15_SamplesDependOnSeedOnly ==
  last.op \in TerrainOps =>
    \A i \in 1..Len(last.events) :
      (last.events[i].ev # "setSeed" /\ SeedGiven(last.events, i) # None) =>
        last.events[i].val =
          FreshAnswer(SeedGiven(last.events, i), last.events[i].ev, last.events[i].at)

\* one cell sampled under seed 42, then under seed 1337, then under 42 again,
\* with different blocks under the two seeds
C15_Witness ==
  /\ last.op = "terrainGenerator.getBlock"
  /\ Len(last.events) = MaxCalls
  /\ \E i, j \in 1..Len(last.events) :
        /\ i < j
        /\ last.events[i].ev = "getBlock" /\ last.events[j].ev = "getBlock"
        /\ last.events[i].at = last.events[j].at
        /\ SeedGiven(last.events, i) = 1337 /\ SeedGiven(last.events, j) = 42
        /\ last.events[i].val # last.events[j].val

\* C16 as stated: in every column the block at every y <= 1 is bedrock,
\* whatever the surface height of the column.
C16_BedrockBelowTwo ==
  (last.op = "getBlock of noise" /\ last.args[5] <= Num(1)) =>
    last.ret = BEDROCK

\* C16: the block is bedrock at every y < 0, and at y = 0 and y = 1 when y is
\* not above the surface height of the column; at y = 0 or y = 1 above the
\* surface height it is water.
C16_BedrockUnlessAboveSurface ==
  (last.op = "getBlock of noise" /\ last.args[5] <= Num(1)) =>
    LET surfaceHeight == HeightOf(last.args[1], last.args[2], last.args[3])
    IN  last.ret = IF last.args[5] >= 0 /\ last.args[5] > surfaceHeight
                     THEN WATER ELSE BEDROCK

\* y = 1 sampled in a column whose surface height is 0: water
C16_Witness ==
  /\ last.op = "getBlock of noise"
  /\ last.args[5] = Num(1)
  /\ HeightOf(last.args[1], last.args[2], last.args[3]) = Num(0)
  /\ last.ret = WATER


----------------------------------------------------------------------------
(* Entities *)

\* the box of the given width and height at position shares volume with a
\* solid voxel
BoxOverlapsSolid(m, s, position, bounds) ==
  LET hw == bounds.width \div 2
  IN  \E x \in FloorOf(position[1] - hw)..FloorOf(position[1] + hw),
         y \in FloorOf(position[2])..FloorOf(position[2] + bounds.height),
         z \in FloorOf(position[3] - hw)..FloorOf(position[3] + hw) :
        /\ position[1] + hw > 1000 * x /\ position[1] - hw < 1000 * (x + 1)
        /\ position[2] + bounds.height > 1000 * y /\ position[2] < 1000 * (y + 1)
        /\ position[3] + hw > 1000 * z /\ position[3] - hw < 1000 * (z + 1)
        /\ isBlockSolid(Voxel(m, <<Num(x), Num(y), Num(z)>>))

\* C17: after resolveCollisions, on each axis whose move reported a collision
\* the correction (the undo of the delta, or the snap to floor(y) + 1.001)
\* leaves the box of the entity overlapping no solid voxel.
C17_CorrectionLeavesNoOverlap ==
  last.op = "Entity.resolveCollisions" =>
    \A axis \in 1..3 :
      last.ret.hit[axis] =>
        ~BoxOverlapsSolid(chunks, noise, last.ret.at[axis], last.args[1].bounds)

\* the entity handed to the last resolveCollisions call and its time step
Before == last.args[1]
Dt == last.args[2]

\* the collision test of the entity's box at position p
Hits(p) == checkCollision(chunks, noise, p, Before.bounds)

\* C24: the axes are moved and tested in the order X, Y, Z, each test at the
\* position already corrected on the earlier axes: an X or Z collision
\* restores that coordinate and zeroes that velocity component; a Y
\* collision with vy < 0 sets y to floor(y) + 1.001 and grounded, a Y
\* collision with vy >= 0 restores y, any Y collision zeroes vy, and a Y
\* move without collision clears grounded.
C24_AxesInOrder ==
  last.op = "Entity.resolveCollisions" =>
    LET p0 == Before.position
        v0 == Before.velocity
        after == last.ret.entity
        x1 == p0[1] + v0[1] * Dt
        hitX == Hits(<<x1, p0[2], p0[3]>>)
        xa == IF hitX THEN p0[1] ELSE x1
        y1 == p0[2] + v0[2] * Dt
        hitY == Hits(<<xa, y1, p0[3]>>)
        ya == IF ~hitY THEN y1
              ELSE IF v0[2] < 0 THEN FloorOf(y1) * 1000 + 1001 ELSE p0[2]
        z1 == p0[3] + v0[3] * Dt
        hitZ == Hits(<<xa, ya, z1>>)
        za == IF hitZ THEN p0[3] ELSE z1
    IN  /\ last.ret.hit = <<hitX, hitY, hitZ>>
        /\ after.position = <<xa, ya, za>>
        /\ after.velocity = << IF hitX THEN 0 ELSE v0[1], IF hitY THEN 0 ELSE v0[2],
                               IF hitZ THEN 0 ELSE v0[3] >>
        /\ (hitY /\ v0[2] < 0) => after.grounded
        /\ ~hitY => ~after.grounded

\* a step that collides on all three axes, landing on the ground
C24_Witness ==
  /\ last.op = "Entity.resolveCollisions"
  /\ last.ret.hit = <<TRUE, TRUE, TRUE>>
  /\ Before.velocity[2] < 0
  /\ last.ret.entity.grounded


----------------------------------------------------------------------------
(* The spawn search *)

\* the result of the same search in a world of the same seed that holds no
\* chunk
SpawnInEmptyWorld ==
  findSafeSpawn(EmptyMap, noise, last.args[1], last.args[2], last.args[3]).ret

\* the solid voxels of the column of (x, z) in the world as it is
SolidHeights(x, z) ==
  { y \in 0..(CHUNK_HEIGHT - 1) : isBlockSolid(Voxel(chunks, <<x, Num(y), z>>)) }

\* C18 as stated: the whole result of findSafeSpawn, the ground height y
\* included, is the same in two worlds of the same seed whatever their
\* loaded chunks and edits.
C18_SpawnFromTerrainOnly ==
  last.op = "findSafeSpawn" => last.ret = SpawnInEmptyWorld

\* C18: the x and z of the result of findSafeSpawn are the same in two worlds
\* of the same seed whatever their loaded chunks and edits; the y returned is
\* read from the world: one above the highest solid voxel of the column of
\* (x, z), 30 where the column holds none.
C18_SpawnColumnFromTerrainOnly ==
  last.op = "findSafeSpawn" =>
    /\ last.ret[1] = SpawnInEmptyWorld[1]
    /\ last.ret[3] = SpawnInEmptyWorld[3]
    /\ last.ret[2] =
         IF SolidHeights(last.ret[1], last.ret[3]) = {} THEN Num(30)
         ELSE Num(1 + CHOOSE y \in SolidHeights(last.ret[1], last.ret[3]) :
                        \A w \in SolidHeights(last.ret[1], last.ret[3]) : w <= y)

\* the search around the player's target in a loaded world where a block was
\* put on the ground: y differs from the y of the world without chunks
C18_Witness ==
  /\ last.op = "findSafeSpawn"
  /\ last.args[1] = Num(8) + 1 /\ last.args[2] = Num(8) + 1
  /\ Voxel(chunks, SpawnEditCell) = STONE
  /\ last.ret[2] = Num(GroundY + 2)
  /\ SpawnInEmptyWorld[2] = Num(30)


\* the cell the search starts from, and the ring of a cell around it
StartCell == <<MathFloor(last.args[1]), MathFloor(last.args[2])>>

Ring(cell) ==
  LET ax == ToInt(MathAbs(cell[1] - StartCell[1]))
      az == ToInt(MathAbs(cell[2] - StartCell[2]))
  IN  IF ax > az THEN ax ELSE az

\* the cells of ring r around the start cell
RingCells(r) ==
  { cell \in { <<StartCell[1] + Num(i), StartCell[2] + Num(j)>> : i \in (0 - r)..r, j \in (0 - r)..r } :
      Ring(cell) = r }

\* surface at or above sea level, a solid surface block, two empty blocks
\* above it
Qualifies(cell) ==
  LET surfaceY == getHeight(noise, cell[1], cell[2])
  IN  /\ surfaceY >= Num(SEA_LEVEL)
      /\ isBlockSolid(TerrainGetBlock(noise, cell[1], surfaceY, cell[2]))
      /\ \A up \in {1, 2} :
            TerrainGetBlock(noise, cell[1], surfaceY + Num(up), cell[2]) = AIR

\* the walk is an outward square spiral from the start cell: each cell is
\* beside the one before, none is visited twice, and a cell of ring r + 1
\* comes only after every cell of ring r
SpiralOrder(visited) ==
  /\ Len(visited) >= 1 => visited[1].at = StartCell
  /\ \A i \in 1..(Len(visited) - 1) :
        MathAbs(visited[i + 1].at[1] - visited[i].at[1])
          + MathAbs(visited[i + 1].at[2] - visited[i].at[2]) = Num(1)
  /\ \A i, j \in 1..Len(visited) : i # j => visited[i].at # visited[j].at
  /\ \A i \in 1..Len(visited) :
        Ring(visited[i].at) >= 1 =>
          RingCells(Ring(visited[i].at) - 1) \subseteq { visited[j].at : j \in 1..(i - 1) }

\* C19: findSafeSpawn walks integer cells in outward square-spiral order from
\* (floor(startX), floor(startZ)), each cell at most once and ring by ring;
\* it returns the centre of the first visited cell that qualifies, and the
\* original (startX, startZ) if no visited cell qualifies; the walk ends
\* within maxRadius * maxRadius * 4 cells.
C19_SpiralToFirstSafeCell ==
  last.op = "findSafeSpawn" =>
    LET visited == last.events
        safe == { i \in 1..Len(visited) : Qualifies(visited[i].at) }
    IN  /\ SpiralOrder(visited)
        /\ Len(visited) <= last.args[3] * last.args[3] * 4
        /\ \A i \in 1..Len(visited) :
              /\ MathAbs(visited[i].at[1] - last.args[1]) <= Num(last.args[3])
              /\ MathAbs(visited[i].at[2] - last.args[2]) <= Num(last.args[3])
        /\ safe # {} =>
              /\ safe = {Len(visited)}
              /\ last.ret[1] = visited[Len(visited)].at[1] + 1
              /\ last.ret[3] = visited[Len(visited)].at[2] + 1
        /\ safe = {} =>
              /\ last.ret[1] = last.args[1]
              /\ last.ret[3] = last.args[2]

\* a search that walked through ring 1 into ring 2 and found its cell there
C19_Witness ==
  /\ last.op = "findSafeSpawn"
  /\ Len(last.events) > 9
  /\ Ring(last.events[Len(last.events)].at) = 2
  /\ Qualifies(last.events[Len(last.events)].at)
  /\ last.ret[1] = last.events[Len(last.events)].at[1] + 1

\* a search that walked every cell within its radius and fell back to the
\* target
C19_FallbackWitness ==
  /\ last.op = "findSafeSpawn"
  /\ last.args[3] = 2
  /\ Len(last.events) = 9
  /\ \A i \in 1..Len(last.events) : ~Qualifies(last.events[i].at)
  /\ last.ret[1] = last.args[1] /\ last.ret[3] = last.args[2]


----------------------------------------------------------------------------
(* Ambient occlusion *)

\* the entry of FACES a face of the output was pushed for
FaceOf(f) == FACES[CHOOSE k \in 1..6 : FACES[k].dir = f.normals]

\* the AO level of vertex i of a face of the output, read from its brightness
AoLevel(f, i) ==
  CHOOSE a \in 0..3 : f.colors[i] = FaceOf(f).brightness * AO_CURVE[a + 1]

\* the two vertices, numbered 0..3 within the quad, that the two triangles
\* of a face of the output share
SharedDiagonal(f) ==
  LET first == CHOOSE v \in { f.indices[k] : k \in 1..6 } :
                 \A k \in 1..6 : v <= f.indices[k]
  IN  { f.indices[k] - first : k \in 1..3 } \cap { f.indices[k] - first : k \in 4..6 }

\* the faces of both buffers of the output of the last call
FacesOfCall == { last.ret.solid[j] : j \in 1..Len(last.ret.solid) }
                 \cup { last.ret.water[j] : j \in 1..Len(last.ret.water) }

\* C21 as stated: the shared diagonal joins the pair of opposite corners with
\* the higher combined AO level: 0-2 when a0 + a2 > a1 + a3, 1-3 when
\* a1 + a3 > a0 + a2.
C21_DiagonalOfHigherOcclusion ==
  last.op = "Chunk.buildMesh" =>
    \A f \in FacesOfCall :
      /\ AoLevel(f, 1) + AoLevel(f, 3) > AoLevel(f, 2) + AoLevel(f, 4) =>
            SharedDiagonal(f) = {0, 2}
      /\ AoLevel(f, 2) + AoLevel(f, 4) > AoLevel(f, 1) + AoLevel(f, 3) =>
            SharedDiagonal(f) = {1, 3}

\* C21: the shared diagonal joins the pair of opposite corners with the lower
\* combined AO level: 1-3 when a0 + a2 > a1 + a3, and 0-2 when
\* a1 + a3 > a0 + a2 (and when the sums are equal).
C21_DiagonalOfLowerOcclusion ==
  last.op = "Chunk.buildMesh" =>
    \A f \in FacesOfCall :
      SharedDiagonal(f) =
        IF AoLevel(f, 1) + AoLevel(f, 3) > AoLevel(f, 2) + AoLevel(f, 4)
          THEN {1, 3} ELSE {0, 2}

\* a mesh with a face cut along 1-3 (a0 + a2 the higher sum) and a face with
\* a1 + a3 the higher sum
C21_Witness ==
  /\ last.op = "Chunk.buildMesh"
  /\ \E f \in FacesOfCall :
        /\ AoLevel(f, 1) + AoLevel(f, 3) > AoLevel(f, 2) + AoLevel(f, 4)
        /\ SharedDiagonal(f) = {1, 3}
  /\ \E f \in FacesOfCall :
        /\ AoLevel(f, 2) + AoLevel(f, 4) > AoLevel(f, 1) + AoLevel(f, 3)
        /\ SharedDiagonal(f) = {0, 2}

\* the block the chunk reads at the cell `by` away from the cell one step
\* along the normal of face f
AoNeighbour(f, by) ==
  ChunkGetBlock(chunks, noise, chunks[last.args[1]],
                f.block[1] + Num(FaceOf(f).dir[1] + by[1]),
                f.block[2] + Num(FaceOf(f).dir[2] + by[2]),
                f.block[3] + Num(FaceOf(f).dir[3] + by[3]))

\* non-empty, non-transparent and not partial
Occludes(block) ==
  /\ block # AIR
  /\ ~blockRegistry[block].transparent
  /\ blockRegistry[block].height16 = 16

\* the level the rule gives vertex i of face f: the vertex lies on the low or
\* the high side of the block along each of the two axes of the face plane
LevelByRule(f, i) ==
  LET axes == { k \in 1..3 : FaceOf(f).dir[k] = 0 }
      t1 == CHOOSE k \in axes : \A j \in axes : k <= j
      t2 == CHOOSE k \in axes : \A j \in axes : k >= j
      side(k) == IF FaceOf(f).verts[i][k] = 1 THEN 1 ELSE 0 - 1
      step(k) == [j \in 1..3 |-> IF j = k THEN side(k) ELSE 0]
      edge1 == Occludes(AoNeighbour(f, step(t1)))
      edge2 == Occludes(AoNeighbour(f, step(t2)))
      corner == Occludes(AoNeighbour(f, [j \in 1..3 |-> step(t1)[j] + step(t2)[j]]))
  IN  IF edge1 /\ edge2 THEN 3
      ELSE Cardinality({ n \in {"edge1", "edge2", "corner"} :
                            \/ n = "edge1" /\ edge1
                            \/ n = "edge2" /\ edge2
                            \/ n = "corner" /\ corner })

\* C22: the AO level of a vertex of a solid face is 3 when both edge
\* neighbours, one step along the normal, occlude (non-empty, non-transparent,
\* not partial), and otherwise the number of occluding neighbours among the
\* two edges and the corner; every vertex of a fluid face has level 0.
C22_AoLevelByNeighbours ==
  last.op = "Chunk.buildMesh" =>
    /\ \A j \in 1..Len(last.ret.solid) : \A i \in 1..4 :
          AoLevel(last.ret.solid[j], i) = LevelByRule(last.ret.solid[j], i)
    /\ \A j \in 1..Len(last.ret.water) : \A i \in 1..4 :
          AoLevel(last.ret.water[j], i) = 0

\* a mesh with a vertex at level 3, a vertex beside a snow block that does
\* not darken it, and a water face
C22_Witness ==
  /\ last.op = "Chunk.buildMesh"
  /\ Len(last.ret.water) >= 1
  /\ \E j \in 1..Len(last.ret.solid) : \E i \in 1..4 :
        AoLevel(last.ret.solid[j], i) = 3
  /\ \E j \in 1..Len(last.ret.solid) : \E i \in 1..4 : \E d \in {<<1, 0, 0>>, <<-1, 0, 0>>} :
        /\ AoNeighbour(last.ret.solid[j], d) = SNOW
        /\ FaceOf(last.ret.solid[j]).dir = <<0, 1, 0>>
        /\ FaceOf(last.ret.solid[j]).verts[i][1] = (IF d[1] = 1 THEN 1 ELSE 0)
        /\ AoLevel(last.ret.solid[j], i) = 0


----------------------------------------------------------------------------
(* Terrain layering *)

\* the surface height of the column last sampled, the height sampled, and
\* the block returned
ColumnH == HeightOf(last.args[1], last.args[2], last.args[3])
ColumnY == last.args[5]

\* the layers at and under the surface: a carved cell (empty at y <= h) lies
\* in 5 < y < h - 5; at y = h >= 2 sand iff h < 25, else grass; dirt for
\* h - 3 <= y < h and stone below, unless carved or bedrock
LayersUnderSurface ==
  /\ (ColumnY <= ColumnH /\ last.ret = AIR) =>
        (Num(5) < ColumnY /\ ColumnY < ColumnH - Num(5))
  /\ (ColumnY = ColumnH /\ ColumnH >= Num(2)) =>
        last.ret = (IF ColumnH < Num(25) THEN SAND ELSE GRASS)
  /\ (ColumnH - Num(3) <= ColumnY /\ ColumnY < ColumnH) =>
        last.ret \in {DIRT, AIR, BEDROCK}
  /\ ColumnY < ColumnH - Num(3) =>
        last.ret \in {STONE, AIR, BEDROCK}
  /\ (ColumnY <= ColumnH /\ last.ret = BEDROCK) => ColumnY <= Num(1)

\* C23 as stated: above h the block is water iff y <= sea level and empty
\* otherwise; under the surface the layers are as described.
C23_LayersAllHeights ==
  last.op = "getBlock of noise" =>
    /\ ColumnY > ColumnH =>
          last.ret = (IF ColumnY <= Num(SEA_LEVEL) THEN WATER ELSE AIR)
    /\ LayersUnderSurface

\* C23: above h the block is bedrock for y < 0, water for 0 <= y <= sea
\* level and empty otherwise; under the surface the layers are as described.
C23_LayersFromZeroUp ==
  last.op = "getBlock of noise" =>
    /\ ColumnY > ColumnH =>
          last.ret = (IF ColumnY < 0 THEN BEDROCK
                      ELSE IF ColumnY <= Num(SEA_LEVEL) THEN WATER ELSE AIR)
    /\ LayersUnderSurface

\* a carved cell seven under a surface high enough
C23_Witness ==
  /\ last.op = "getBlock of noise"
  /\ last.args[4] > 600
  /\ ColumnY = ColumnH - Num(7)
  /\ last.ret = AIR


----------------------------------------------------------------------------
(* Water physics *)

\* C25: after applyWaterPhysics(velocity, dt) with dt >= 0, velocity.y is at
\* most WATER_MAX_SWIM_SPEED and velocity.x and velocity.z lie within
\* WATER_MAX_HORIZONTAL_SPEED of zero, each axis being clamped on its own and
\* the downward speed not at all.
C25_WaterSpeedsClamped ==
  last.op = "applyWaterPhysics" =>
    /\ last.ret[2] <= 300
    /\ 0 - 450 <= last.ret[1] /\ last.ret[1] <= 450
    /\ 0 - 450 <= last.ret[3] /\ last.ret[3] <= 450

\* a dive at the swimming speed along x: x is clamped, z is left as it is,
\* and the downward speed, slowed by the drag to 32.2, stays far beyond 3
C25_Witness ==
  /\ last.op = "applyWaterPhysics"
  /\ last.args = << <<1500, 0 - 5000, 0>>, 16 >>
  /\ last.ret[1] = 450
  /\ last.ret[3] = 0
  /\ 0 - 3230 < last.ret[2] /\ last.ret[2] < 0 - 3200


----------------------------------------------------------------------------
(* Snow and its support *)

\* the array slots of the loaded chunks that hold snow
SnowSlots ==
  { sl \in UNION { {k} \X DOMAIN chunks[k].blocks : k \in DOMAIN chunks } :
      chunks[sl[1]].blocks[sl[2]] = SNOW }

\* C26: after any sequence of player edits, snow placements and chunk loads
\* and unloads, every SNOW block of a loaded chunk has a block that can
\* support it directly below.
C26_SnowIsSupported ==
  \A sl \in SnowSlots :
    isBlockSupport(Voxel(chunks, Up(CellOfSlot(chunks, sl[1], sl[2]), 0 - 1)))

\* the player has broken a block that carried snow, the cascade has taken
\* that snow, and snow lies elsewhere in the loaded chunks
C26_Witness ==
  /\ last.op = "mousedown" /\ last.args[1] = 0
  /\ Cardinality(CascadeEntries(last)) = 1
  /\ SnowSlots # {}


----------------------------------------------------------------------------
(* Geometry at the chunk seams *)

\* pairs of face-adjacent cells that lie in different chunks
SeamPairs ==
  { <<Cell(16, 1, 5), Cell(15, 1, 5)>>, <<Cell(15, 1, 5), Cell(16, 1, 5)>> }

\* buildMesh, run now in the world m, would emit the face of the block at c
\* towards the cell c2 of the next chunk: the block is full and opaque and
\* the neighbour lookup answers with a transparent block
FaceOnSeam(m, c, c2) ==
  /\ isBlockSolid(Voxel(m, c))
  /\ ~isBlockTransparent(Voxel(m, c)) /\ ~isPartialBlock(Voxel(m, c))
  /\ isBlockTransparent(getBlockForChunk(m, noise, c2[1], c2[2], c2[3]))

\* C27 as stated: after any sequence of update and setBlock calls the solid
\* geometry a loaded chunk holds has the face of a full opaque block on a
\* chunk boundary exactly when the neighbour lookup now returns a
\* transparent block; that is, a call that changes whether such a face of a
\* chunk it keeps belongs in the geometry also rebuilds that chunk's mesh.
C27_SeamGeometryFollowsWorld ==
  [][\A p \in SeamPairs :
       ( /\ SlotOf(p[1])[1] \in DOMAIN chunks
         /\ SlotOf(p[1])[1] \in DOMAIN chunks'
         /\ FaceOnSeam(chunks, p[1], p[2]) # FaceOnSeam(chunks', p[1], p[2]) )
       => Remeshes(last', SlotOf(p[1])[1]) # {}]_vars


----------------------------------------------------------------------------
(* Reloading a chunk *)

\* the chunks the last call constructed
Constructed(call) == { call.events[i].key : i \in EventsOf(call, {"new Chunk"}) }

\* C28: a chunk that update loads, for the first time or again after an
\* unload, holds at every voxel what terrainGenerator.getBlock returns for
\* its world coordinate, whatever edits it had received before the unload.
C28_ReloadedFromTerrain ==
  last.op = "update" =>
    \A key \in Constructed(last) :
      /\ key \in DOMAIN chunks
      /\ \A i \in DOMAIN chunks[key].blocks :
           chunks[key].blocks[i] =
             TerrainGetBlock(noise, CellOfSlot(chunks, key, i)[1],
                             CellOfSlot(chunks, key, i)[2],
                             CellOfSlot(chunks, key, i)[3])

\* chunk (0, 0) was loaded around Here, unloaded by the update around Far
\* and constructed again by this update around Here; its stone at (5, 9, 5)
\* is back
C28_Witness ==
  /\ last.op = "update"
  /\ centres = << worldToChunk(Here[1], Here[2]), worldToChunk(Far[1], Far[2]),
                  worldToChunk(Here[1], Here[2]) >>
  /\ getChunkKey(0, 0) \in Constructed(last)
  /\ Voxel(chunks, Cell(5, 9, 5)) = STONE


----------------------------------------------------------------------------
(* The seeded random source *)

\* C29 as stated: for every integer seed that reaches setSeed, the negative
\* 32-bit values of hashSeed included, every value the seeded random source
\* produces is in [0, 1) and its internal state is in [0, 233280) after the
\* first step.
C29_RandomInUnitInterval ==
  last.op = "seededRandom" =>
    /\ 0 <= last.ret[1] /\ last.ret[1] < 233280
    /\ 0 <= last.ret[3] /\ last.ret[3] < 233280


----------------------------------------------------------------------------
(* The game-state machine *)

\* C30: all the chunks loaded at any one time were generated from the
\* current terrain seed, and no chunk is loaded while the state is
\* main_menu.
C30_OneSeedAndEmptyMenu ==
  /\ \A key \in DOMAIN chunks : chunks[key].genSeed = noise
  /\ gameState = "main_menu" => chunks = EmptyMap

\* the back-to-menu button has disposed the chunks of the world, all 49 or
\* more of them, and has left the flag worldInitialized cleared
C30_Witness ==
  /\ last.op = "back to menu" /\ gameState = "main_menu"
  /\ Cardinality(EventsOf(last, {"dispose"})) >= 49
  /\ chunks = EmptyMap /\ ~worldInitialized

====
